---- MODULE Spec2Model ----
(***************************************************************************)
(* Slot allocation and conflict-resolution engine of the TDMA coordinators *)
(* (src/src/ap/TDMAv7.py, TDMAv4.py and TDMAv3.py, and                     *)
(* src/src/Co-TDMA/Co-TDMAv2.1.py).                                        *)
(*                                                                         *)
(* Stations "AP1".."APn" are the indices 1..n; a Python list is a          *)
(* sequence; a dict keyed by station is a sequence indexed by station; a   *)
(* defaultdict(int) over slots is a function on the slot domain.  A random *)
(* draw is a nondeterministic choice over every value the draw can return, *)
(* so an operator that models a function using the random module returns   *)
(* the SET of the results the function can return.                         *)
(***************************************************************************)
EXTENDS Integers, Sequences, FiniteSets, TLC

VARIABLES
    num_aps,            \* FeedbackCoordinator.num_aps
    num_channels,       \* FeedbackCoordinator.num_channels
    traffic_demand,     \* FeedbackCoordinator.traffic_demand, station -> int
    base,               \* the base draw of the latest _generate_demand call
    heatmap,            \* EnhancedChannelPool.heatmap
    conflict_history,   \* EnhancedChannelPool.conflict_history
    success_records,    \* FeedbackCoordinator.success_records
    store,              \* SAVE_FILE: whether it exists, whether json.load
                        \* reads it, and the list in it
    feedback_history,   \* FeedbackCoordinator.feedback_history
    last_selections,    \* FeedbackCoordinator.last_selections
    selections,         \* _negotiation_round: validated proposals of the round
    ap_slots,           \* run: the final lists the round returned
    attempt,            \* run: the loop variable
    current_rounds,     \* FeedbackCoordinator.current_rounds
    pc,                 \* position of the program
    error,              \* the exception that ended the run, or NoError
    queries,            \* number of generate_reply calls issued so far
    successes,          \* number of rounds _check_success accepted so far
    response,           \* the station and the raw reply handed to
                        \* _parse_response, or the list handed to
                        \* _validate_channels
    parsed,             \* what the call returned for it
    sent,               \* _negotiation_round: the station asked last in the
                        \* round and the context of its query
    traffic_predictor,  \* TDMAv3: the level of each station's predictor
    channel_history,    \* TDMAv3: DynamicChannelCoordinator.channel_history
    tasks,              \* Co-TDMA: the remaining load of each station
    active_alloc,       \* Co-TDMA: DynamicSlotAllocator.active_alloc
    free_pool,          \* Co-TDMA: DynamicSlotAllocator.free_pool
    locked_slots,       \* Co-TDMA: DynamicSlotAllocator.locked_slots
    negotiation,        \* Co-TDMA: the locals of _negotiation_phase
    demand_calls        \* number of _generate_demand calls that returned

\* the state only the TDMAv3 coordinator has
v3vars == <<traffic_predictor, channel_history>>

\* the state only the Co-TDMA coordinator and its allocator have
covars == <<tasks, active_alloc, free_pool, locked_slots, negotiation>>

vars == <<num_aps, num_channels, traffic_demand, base, heatmap,
          conflict_history, success_records, store, feedback_history,
          last_selections, selections, ap_slots, attempt, current_rounds,
          pc, error, queries, successes, response, parsed, sent,
          v3vars, covars, demand_calls>>

\* no TDMAv3 coordinator is part of the run
NoV3 ==
    /\ traffic_predictor = <<>>
    /\ channel_history = <<>>

\* no Co-TDMA coordinator is part of the run
NoCoTDMA ==
    /\ tasks = <<>>
    /\ active_alloc = <<>>
    /\ free_pool = {}
    /\ locked_slots = <<>>
    /\ negotiation = <<>>

(***************************************************************************)
(* Bounds of the model and program constants.                              *)
(***************************************************************************)
\* largest station count / slot count of a coordinator that runs rounds
MaxAps == 3
MaxChannels == 3
\* largest station count / slot count handed to _generate_demand alone
DemandMaxAps == 4
DemandMaxChannels == 6
\* rounds of the run loop (the source runs 200)
MaxRounds == 2
MAX_ATTEMPTS == MaxRounds
\* random.randint(1, 4) of _generate_demand
BASE_MIN == 1
BASE_MAX == 4

NoError == "none"

(***************************************************************************)
(* Lists.                                                                  *)
(***************************************************************************)
Range(s) == {s[i] : i \in DOMAIN s}

RECURSIVE Sum(_)
Sum(s) == IF s = <<>> THEN 0 ELSE Head(s) + Sum(Tail(s))

\* list.count
Count(s, x) == Cardinality({i \in DOMAIN s : s[i] = x})

\* s[:n] for n >= 0, and for n < 0 (all but the last -n entries)
Prefix(s, n) ==
    LET k == IF n >= 0 THEN (IF n < Len(s) THEN n ELSE Len(s))
             ELSE (IF Len(s) + n > 0 THEN Len(s) + n ELSE 0)
    IN  SubSeq(s, 1, k)

RECURSIVE Insert(_, _)
Insert(s, x) ==
    IF s = <<>> THEN <<x>>
    ELSE IF x <= Head(s) THEN <<x>> \o s
    ELSE <<Head(s)>> \o Insert(Tail(s), x)

\* sorted(list): ascending, duplicates kept
RECURSIVE Sorted(_)
Sorted(s) == IF s = <<>> THEN <<>> ELSE Insert(Sorted(Tail(s)), Head(s))

\* sorted(list(set(...))): ascending list of the members of a set
RECURSIVE SortedSet(_)
SortedSet(S) ==
    IF S = {} THEN <<>>
    ELSE LET m == CHOOSE x \in S : \A y \in S : x <= y
         IN  <<m>> \o SortedSet(S \ {m})

\* the concatenation of a list of lists: [ch for ap in ap_slots for ch in ap]
RECURSIVE Flatten(_)
Flatten(ss) == IF ss = <<>> THEN <<>> ELSE Head(ss) \o Flatten(Tail(ss))

\* random.sample(population, k), population a list without duplicates:
\* every list of k distinct members, in any order; ValueError when k is
\* negative or larger than the population (the empty set stands for it here,
\* callers test SampleRaises first)
SampleRaises(population, k) == k < 0 \/ k > Len(population)

RECURSIVE Sample(_, _)
Sample(population, k) ==
    IF k <= 0 THEN {<<>>}
    ELSE UNION {{<<population[i]>> \o t :
                    t \in Sample(SubSeq(population, 1, i - 1)
                                 \o SubSeq(population, i + 1, Len(population)),
                                 k - 1)} :
                i \in DOMAIN population}

Slots == 0 .. (num_channels - 1)
APs == 1 .. num_aps

\* list(range(n))
RangeList(n) == [i \in 1 .. n |-> i - 1]

(***************************************************************************)
(* Python floats (IEEE 754 doubles).  A nonnegative double is the set of   *)
(* the exponents of the ones of its binary expansion: 2.5 is {1, -1}.      *)
(***************************************************************************)
\* the largest element of a nonempty set of integers
MaxOf(S) == CHOOSE e \in S : \A o \in S : o <= e

\* the sum of two binary expansions: ones that meet carry to the next place
RECURSIVE BinAdd(_, _)
BinAdd(A, B) ==
    IF B = {} THEN A
    ELSE BinAdd((A \cup B) \ (A \cap B), {e + 1 : e \in A \cap B})

\* the difference of two binary expansions, the first not the smaller one
RECURSIVE BinSub(_, _)
BinSub(A, B) ==
    IF B = {} THEN A
    ELSE BinSub((A \cup B) \ (A \cap B), {e + 1 : e \in B \ A})

\* the product of two binary expansions
RECURSIVE BinMul(_, _)
BinMul(A, B) ==
    IF B = {} THEN {}
    ELSE LET e == MaxOf(B)
         IN  BinAdd({a + e : a \in A}, BinMul(A, B \ {e}))

\* whether the first expansion is the smaller number
BinLess(A, B) ==
    /\ A # B
    /\ MaxOf((A \cup B) \ (A \cap B)) \in B

\* the binary expansion of a natural number below 2^31
BinOfInt(n) == {e \in 0 .. 30 : (n \div 2 ^ e) % 2 = 1}

\* the natural number of an expansion without fractional places
RECURSIVE IntOfBin(_)
IntOfBin(A) ==
    IF A = {} THEN 0
    ELSE LET e == MaxOf(A) IN 2 ^ e + IntOfBin(A \ {e})

\* the double nearest to an exact value: 53 significant places, a tie goes
\* to the even one
RoundToDouble(A) ==
    IF A = {} THEN {}
    ELSE LET last == MaxOf(A) - 52
             kept == {e \in A : e >= last}
             rest == A \ kept
         IN  IF /\ (last - 1) \in rest
                /\ (rest # {last - 1} \/ last \in kept)
             THEN BinAdd(kept, {last})
             ELSE kept

\* 2^j modulo m
RECURSIVE PowMod2(_, _)
PowMod2(j, m) == IF j = 0 THEN 1 % m ELSE (2 * PowMod2(j - 1, m)) % m

\* the double p / q of two integers, p >= 0 and q > 0: the places of the
\* quotient down to two past the 53rd, and one more place for what is left
DoubleDiv(p, q) ==
    LET whole == BinOfInt(p \div q)
        rem == p % q
        FracPlace(j) == (rem * PowMod2(j, 2 * q)) % (2 * q) >= q
        first == IF whole # {} THEN MaxOf(whole)
                 ELSE 0 - (CHOOSE j \in 1 .. 31 :
                             /\ FracPlace(j)
                             /\ \A i \in 1 .. (j - 1) : ~FracPlace(i))
        depth == 55 - first
        frac == {0 - j : j \in {i \in 1 .. depth : FracPlace(i)}}
        left == IF (rem * PowMod2(depth, q)) % q # 0 THEN {0 - depth - 1}
                ELSE {}
    IN  IF rem = 0 THEN RoundToDouble(whole)
        ELSE RoundToDouble(whole \cup frac \cup left)

\* a double with its sign
Double(neg, mag) == [neg |-> neg /\ mag # {}, mag |-> mag]
\* float(n) of an integer n
DoubleOfInt(n) == Double(n < 0, BinOfInt(IF n < 0 THEN 0 - n ELSE n))
\* -x
DoubleNeg(x) == Double(~x.neg, x.mag)

\* x + y of two doubles
DoubleAdd(x, y) ==
    IF x.neg = y.neg THEN Double(x.neg, RoundToDouble(BinAdd(x.mag, y.mag)))
    ELSE IF BinLess(x.mag, y.mag)
    THEN Double(y.neg, RoundToDouble(BinSub(y.mag, x.mag)))
    ELSE Double(x.neg, RoundToDouble(BinSub(x.mag, y.mag)))

\* x - y of two doubles
DoubleSub(x, y) == DoubleAdd(x, DoubleNeg(y))

\* x * y of two doubles
DoubleMul(x, y) ==
    Double(x.neg # y.neg,
           RoundToDouble(IF Cardinality(x.mag) < Cardinality(y.mag)
                         THEN BinMul(y.mag, x.mag)
                         ELSE BinMul(x.mag, y.mag)))

\* round(x) of a double: the nearest integer, a tie goes to the even one
DoubleRound(x) ==
    LET whole == IntOfBin({e \in x.mag : e >= 0})
        frac == {e \in x.mag : e < 0}
        n == IF (0 - 1) \notin frac THEN whole
             ELSE IF frac = {0 - 1} /\ whole % 2 = 0 THEN whole
             ELSE whole + 1
    IN  IF x.neg THEN 0 - n ELSE n

\* the double a decimal literal p / q denotes (0.7 is DoubleLiteral(7, 10))
DoubleLiteral(p, q) ==
    Double(p < 0, DoubleDiv(IF p < 0 THEN 0 - p ELSE p, q))

\* int(round(p / q)) for integers p >= 0, q > 0: the double p / q is the one
\* nearest to the quotient and every tie k + 1/2 is a double itself, so the
\* double rounds as the quotient does; Python 3 rounds a tie to the even
\* integer
PyRound(p, q) ==
    LET fl == p \div q
        r2 == 2 * (p % q)
    IN  IF r2 > q THEN fl + 1
        ELSE IF r2 < q THEN fl
        ELSE IF fl % 2 = 0 THEN fl ELSE fl + 1

\* int(round(r * (p / q))) for integers r, p >= 0 and q > 0, where the
\* division and the product are operations on doubles.  The product of the
\* doubles is within r * 2^-52 of r * p / q, which is a tie k + 1/2 or at
\* least 1 / (2 * q) away from every tie: off a tie the product rounds as
\* r * p / q does, on a tie the doubles decide.
RoundScaled(r, p, q) ==
    IF 2 * ((r * p) % q) # q THEN PyRound(r * p, q)
    ELSE DoubleRound(DoubleMul(DoubleOfInt(r), Double(FALSE, DoubleDiv(p, q))))

(***************************************************************************)
(* FeedbackCoordinator._generate_demand (TDMAv7).                          *)
(***************************************************************************)
Max(a, b) == IF a >= b THEN a ELSE b
Abs(a) == IF a >= 0 THEN a ELSE 0 - a

\* the loop "while sum(additions) != remainder": every list the loop can exit
\* with.  A draw of an index whose addition is 0 while the sum is too large
\* changes nothing and draws again.
RECURSIVE DriftAdditions(_, _)
DriftAdditions(additions, remainder) ==
    IF Sum(additions) = remainder THEN {additions}
    ELSE IF Sum(additions) < remainder
    THEN UNION {DriftAdditions([additions EXCEPT ![idx] = @ + 1], remainder) :
                    idx \in DOMAIN additions}
    ELSE UNION {DriftAdditions([additions EXCEPT ![idx] = @ - 1], remainder) :
                    idx \in {j \in DOMAIN additions : additions[j] > 0}}

\* AdjustScaled with a loop that corrects one unit only
AdjustScaledOnce(scaled, n, step) ==
    IF n = 0 THEN {scaled}
    ELSE {[scaled EXCEPT ![idx] = @ + step] : idx \in DOMAIN scaled}

\* the loop "for _ in range(abs(diff)): scaled[idx] += step"
RECURSIVE AdjustScaled(_, _, _)
AdjustScaled(scaled, n, step) ==
    IF n = 0 THEN {scaled}
    ELSE UNION {AdjustScaled([scaled EXCEPT ![idx] = @ + step], n - 1, step) :
                    idx \in DOMAIN scaled}

\* one pass of the body of "while True" for a base draw b: the demand maps
\* the pass can return (a pass that returns nothing draws a new base)
GenerateDemandFrom(b) ==
    LET total == Sum(b)
    IN  IF total <= num_channels
        THEN LET remainder == num_channels - total
                 additions == [i \in DOMAIN b |->
                                  RoundScaled(remainder, b[i], total)]
                 finals == {[i \in DOMAIN b |-> b[i] + a[i]] :
                                a \in DriftAdditions(additions, remainder)}
             IN  {f \in finals : Sum(f) = num_channels}
        ELSE LET scaled == [i \in DOMAIN b |->
                               Max(1, PyRound(b[i] * num_channels, total))]
                 current_total == Sum(scaled)
                 diff == num_channels - current_total
                 step == IF diff > 0 THEN 1 ELSE -1
             IN  AdjustScaled(scaled, Abs(diff), step)

BaseDraws == [APs -> BASE_MIN .. BASE_MAX]

\* every demand map a call of _generate_demand can return
_generate_demand == UNION {GenerateDemandFrom(b) : b \in BaseDraws}

(***************************************************************************)
(* The reply of the decision source, as far as _parse_response reads it.   *)
(*   shape "nobrace": no "{...}" in the content (re.search finds nothing)  *)
(*   shape "badjson": a brace-delimited text json.loads rejects            *)
(*   shape "nokey":   a JSON object without the key "channels"             *)
(*   shape "list":    a JSON object whose "channels" is the list entries   *)
(* An entry of the list is a JSON value: an integer n (k = "int"), a       *)
(* number with one decimal digit given in tenths (k = "float", 15 is 1.5), *)
(* the string of the decimal digits of n (k = "str"), or a value int()     *)
(* rejects such as null or "x" (k = "junk").                               *)
(***************************************************************************)
MaxRaw == 2

Entries ==
    {[k |-> "int", v |-> n] : n \in -1 .. num_channels}
    \cup {[k |-> "float", v |-> 15], [k |-> "float", v |-> -5]}
    \cup {[k |-> "str", v |-> 0]}
    \cup {[k |-> "junk", v |-> 0]}

RawLists == UNION {[1 .. n -> Entries] : n \in 0 .. MaxRaw}

Responses ==
    {[shape |-> "nobrace", entries |-> <<>>],
     [shape |-> "badjson", entries |-> <<>>],
     [shape |-> "nokey", entries |-> <<>>]}
    \cup {[shape |-> "list", entries |-> l] : l \in RawLists}

\* int(ch): an integer is itself, a float is truncated toward zero, a string
\* of digits is the number it spells; defined for entries int() accepts
Coercible(e) == e.k # "junk"
IntOf(e) ==
    IF e.k = "float"
    THEN (IF e.v >= 0 THEN e.v \div 10 ELSE 0 - ((0 - e.v) \div 10))
    ELSE e.v

\* the result of a call: a returned list, or a raised exception
Returned(l) == [ok |-> TRUE, slots |-> l]
Raised == [ok |-> FALSE, slots |-> <<>>]

(***************************************************************************)
(* FeedbackCoordinator._fallback_strategy, _validate_channels and          *)
(* _parse_response (TDMAv7).                                               *)
(***************************************************************************)
_fallback_strategy(agent) ==
    LET expected == traffic_demand[agent]
    IN  IF SampleRaises(RangeList(num_channels), expected) THEN {Raised}
        ELSE {Returned(Sorted(s)) : s \in Sample(RangeList(num_channels), expected)}

\* _validate_channels without the slice valid[:expected]
ValidateWithoutSlice(channels, agent) ==
    LET expected == traffic_demand[agent]
        valid == SelectSeq(channels, LAMBDA ch : 0 <= ch /\ ch < num_channels)
    IN  IF Len(valid) < expected
        THEN LET need == expected - Len(valid)
                 rest == SelectSeq(RangeList(num_channels),
                                   LAMBDA ch : ch \notin Range(valid))
             IN  IF SampleRaises(rest, need) THEN {Raised}
                 ELSE {Returned(Sorted(valid \o s)) : s \in Sample(rest, need)}
        ELSE {Returned(Sorted(valid))}

\* _validate_channels without the final sorted(...)
ValidateUnsorted(channels, agent) ==
    LET expected == traffic_demand[agent]
        valid == SelectSeq(channels, LAMBDA ch : 0 <= ch /\ ch < num_channels)
    IN  IF Len(valid) < expected
        THEN LET need == expected - Len(valid)
                 rest == SelectSeq(RangeList(num_channels),
                                   LAMBDA ch : ch \notin Range(valid))
             IN  IF SampleRaises(rest, need) THEN {Raised}
                 ELSE {Returned(Prefix(valid \o s, expected)) :
                          s \in Sample(rest, need)}
        ELSE {Returned(Prefix(valid, expected))}


_validate_channels(channels, agent) ==
    LET expected == traffic_demand[agent]
        valid == SelectSeq(channels, LAMBDA ch : 0 <= ch /\ ch < num_channels)
    IN  IF Len(valid) < expected
        THEN LET need == expected - Len(valid)
                 rest == SelectSeq(RangeList(num_channels),
                                   LAMBDA ch : ch \notin Range(valid))
             IN  IF SampleRaises(rest, need) THEN {Raised}
                 ELSE {Returned(Sorted(Prefix(valid \o s, expected))) :
                          s \in Sample(rest, need)}
        ELSE {Returned(Sorted(Prefix(valid, expected)))}

\* the body of the try block of _parse_response: what it returns, Raised
\* standing for any exception raised inside it
ParseTry(reply, agent) ==
    IF reply.shape \in {"nobrace", "badjson"} THEN {Raised}
    ELSE IF \E i \in DOMAIN reply.entries : ~Coercible(reply.entries[i])
    THEN {Raised}
    ELSE LET channels == SortedSet({IntOf(reply.entries[i]) :
                                       i \in DOMAIN reply.entries})
         IN  _validate_channels(channels, agent)

_parse_response(reply, agent) ==
    LET tried == ParseTry(reply, agent)
    IN  (tried \ {Raised})
        \cup (IF Raised \in tried THEN _fallback_strategy(agent) ELSE {})

(***************************************************************************)
(* EnhancedChannelPool.get_feedback and update_stats (TDMAv7).  The lists  *)
(* handed in are the stations' lists in station order.  The heat_ranking   *)
(* entry of the feedback and the usage_queue heap are written only: they   *)
(* go to the decision source or nowhere, and are left out.                 *)
(***************************************************************************)
\* the keys of slot_users in insertion order: first occurrences, in order
FirstSeen(s) ==
    LET first == {i \in DOMAIN s : \A j \in 1 .. (i - 1) : s[j] # s[i]}
        nth(k) == CHOOSE i \in first : Cardinality({j \in first : j < i}) = k - 1
    IN  [k \in 1 .. Cardinality(first) |-> s[nth(k)]]

\* slots with len(users) > 1, one user per occurrence in the lists
ConflictSlots(lists) ==
    LET all_slots == Flatten(lists)
    IN  SelectSeq(FirstSeen(all_slots), LAMBDA ch : Count(all_slots, ch) > 1)

get_feedback(lists) ==
    LET all_slots == Flatten(lists)
        conflict_slots == ConflictSlots(lists)
    IN  [conflict |-> [count |-> Len(conflict_slots), slots |-> conflict_slots],
         utilization |->
            [used |-> Cardinality(Range(all_slots)),
             idle |-> SelectSeq(RangeList(num_channels),
                                LAMBDA ch : ch \notin Range(all_slots)),
             \* the rate used / len(available), kept as the fraction
             rate |-> <<Cardinality(Range(all_slots)), num_channels>>]]

\* conflict_history after update_stats(*lists)
ConflictHistoryAfter(lists) ==
    [ch \in Slots |->
        IF Count(Flatten(lists), ch) > 1 THEN conflict_history[ch] + 1
        ELSE conflict_history[ch]]

\* update_stats that assigns the round's counts instead of adding them
HeatmapOverwritten(lists) ==
    [ch \in Slots |-> Count(Flatten(lists), ch)]

\* heatmap after update_stats(*lists)
HeatmapAfter(lists) ==
    [ch \in Slots |-> heatmap[ch] + Count(Flatten(lists), ch)]

(***************************************************************************)
(* FeedbackCoordinator._resolve_conflicts and phase 2 of                   *)
(* _negotiation_round (TDMAv7).                                            *)
(***************************************************************************)
\* FreeSlots without the test "c not in existing"
FreeSlotsIgnoringExisting(existing, resolved) ==
    {c \in Slots : c \notin Range(resolved)}

\* slots a replacement is drawn from: in neither existing nor resolved
FreeSlots(existing, resolved) ==
    {c \in Slots : c \notin Range(existing) /\ c \notin Range(resolved)}

\* the loop "for ch in new" without the test "if alternatives": random.choice
\* of an empty list raises IndexError, the call returns nothing
RECURSIVE ReplaceCollidingUnguarded(_, _, _, _)
ReplaceCollidingUnguarded(existing, new, j, resolved) ==
    IF j > Len(new) THEN {resolved}
    ELSE IF new[j] \notin (Range(existing) \cap Range(new))
    THEN ReplaceCollidingUnguarded(existing, new, j + 1, Append(resolved, new[j]))
    ELSE UNION {ReplaceCollidingUnguarded(existing, new, j + 1,
                                          Append(resolved, c)) :
                   c \in FreeSlots(existing, resolved)}

\* the loop "for ch in new", from entry j on: every list resolved can be
RECURSIVE ReplaceColliding(_, _, _, _)
ReplaceColliding(existing, new, j, resolved) ==
    IF j > Len(new) THEN {resolved}
    ELSE IF new[j] \notin (Range(existing) \cap Range(new))
    THEN ReplaceColliding(existing, new, j + 1, Append(resolved, new[j]))
    ELSE LET alternatives == FreeSlots(existing, resolved)
         IN  IF alternatives = {}
             THEN ReplaceColliding(existing, new, j + 1, resolved)
             ELSE UNION {ReplaceColliding(existing, new, j + 1,
                                          Append(resolved, c)) :
                            c \in alternatives}

\* the loop "while len(resolved) < len(new)"
RECURSIVE FillMissing(_, _, _)
FillMissing(existing, new, resolved) ==
    IF Len(resolved) >= Len(new) THEN {resolved}
    ELSE LET available == FreeSlots(existing, resolved)
         IN  IF available = {} THEN {resolved}
             ELSE UNION {FillMissing(existing, new, Append(resolved, c)) :
                            c \in available}

\* a resolution that keeps no candidate: every slot of the final list is
\* drawn from the free slots
ResolveByRedrawing(existing, new) ==
    {Sorted(Prefix(filled, Len(new))) :
        filled \in FillMissing(existing, new, <<>>)}

\* a resolution that drops the colliding candidates and replaces none
ResolveByDropping(existing, new) ==
    LET free(c) == c \notin Range(existing)
    IN  {SelectSeq(new, free)}

\* FeedbackCoordinator._resolve_conflicts: every list the call can return
_resolve_conflicts(existing, new) ==
    IF Range(existing) \cap Range(new) = {} THEN {new}
    ELSE {Sorted(Prefix(filled, Len(new))) :
            filled \in UNION {FillMissing(existing, new, r) :
                                r \in ReplaceColliding(existing, new, 1, <<>>)}}

\* phase 2 of _negotiation_round from station i on: every final_selections
RECURSIVE ResolveFrom(_, _, _, _)
ResolveFrom(sels, i, existing, final_selections) ==
    IF i > Len(sels) THEN {final_selections}
    ELSE UNION {ResolveFrom(sels, i + 1, existing \o resolved,
                            Append(final_selections, resolved)) :
                    resolved \in _resolve_conflicts(existing, sels[i])}

\* FeedbackCoordinator._check_success, the feedback of the round being the
\* last entry of feedback_history
_check_success(lists, history) ==
    /\ Cardinality(Range(Flatten(lists))) = num_channels
    /\ history[Len(history)].conflict.slots = <<>>

(***************************************************************************)
(* State of a constructed coordinator (FeedbackCoordinator.__init__ and    *)
(* EnhancedChannelPool.__init__): counters at 0, no record, no feedback.   *)
(***************************************************************************)
\* SAVE_FILE before anything wrote it
NoStore == [exists |-> FALSE, readable |-> FALSE, records |-> <<>>]

\* SAVE_FILE after open(SAVE_FILE, 'w') truncated it and the write raised:
\* empty, or the beginning of the JSON text, which json.load rejects
TruncatedStore == [exists |-> TRUE, readable |-> FALSE, records |-> <<>>]

\* SAVE_FILE after _save_records wrote the list given
Written(records) == [exists |-> TRUE, readable |-> TRUE, records |-> records]

\* no query issued in the round so far
NoMessage == [agent |-> 0, existing_slots |-> <<>>, feedback |-> <<>>]

\* existing_slots that keeps only the latest station's selection
ExistingSlotsOfLatest(sels) ==
    IF sels = <<>> THEN <<>> ELSE sels[Len(sels)]

\* "existing" of phase 1: the validated selections of the stations asked so
\* far in the round, concatenated in station order
ExistingSlots(sels) == Flatten(sels)

\* the message phase 1 of _negotiation_round sends to the next station
QueryMessage(sels) ==
    [agent |-> Len(sels) + 1,
     existing_slots |-> ExistingSlots(sels),
     feedback |-> get_feedback(sels)]

NoReply == [agent |-> 0, reply |-> [shape |-> "none", entries |-> <<>>]]

\* the configurations get_runtime_params accepts: 1 <= num_aps <= num_channels
Configs(maxAps, maxChannels) ==
    {c \in (1 .. maxAps) \X (1 .. maxChannels) : c[1] <= c[2]}

Constructed ==
    /\ heatmap = [ch \in Slots |-> 0]
    /\ conflict_history = [ch \in Slots |-> 0]
    /\ success_records = <<>>
    /\ feedback_history = <<>>
    /\ last_selections = [i \in APs |-> <<>>]
    /\ selections = <<>>
    /\ ap_slots = <<>>
    /\ attempt = 1
    /\ current_rounds = 0
    /\ error = NoError
    /\ queries = 0
    /\ successes = 0
    /\ response = NoReply
    /\ parsed = Raised
    /\ sent = NoMessage
    /\ NoV3
    /\ NoCoTDMA
    /\ demand_calls = 1

(***************************************************************************)
(* SpecDemand: _generate_demand on its own, for every configuration up to  *)
(* DemandMaxAps stations and DemandMaxChannels slots.  The constructor     *)
(* calls it once, run calls it again after every success.                  *)
(***************************************************************************)
InitDemand ==
    /\ \E c \in Configs(DemandMaxAps, DemandMaxChannels) :
          num_aps = c[1] /\ num_channels = c[2]
    /\ \E b \in BaseDraws :
          /\ base = b
          /\ traffic_demand \in GenerateDemandFrom(b)
    /\ store = NoStore
    /\ pc = "demand"
    /\ Constructed

\* the calls of _generate_demand a behaviour of SpecDemand makes at most,
\* the constructor's included
MaxCalls == 3

CallGenerateDemand ==
    /\ pc = "demand"
    /\ demand_calls < MaxCalls
    /\ \E b \in BaseDraws :
          /\ base' = b
          /\ traffic_demand' \in GenerateDemandFrom(b)
    /\ demand_calls' = demand_calls + 1
    /\ UNCHANGED <<num_aps, num_channels, heatmap, conflict_history,
                   success_records, store, feedback_history, last_selections,
                   selections, ap_slots, attempt, current_rounds, pc, error,
                   queries, successes, response, parsed, sent, v3vars, covars>>

NextDemand == CallGenerateDemand

SpecDemand == InitDemand /\ [][NextDemand]_vars

(***************************************************************************)
(* SpecParse: _parse_response on its own, for every demand map the         *)
(* constructor can leave and every reply of Responses.                     *)
(***************************************************************************)
InitParse ==
    /\ \E c \in Configs(MaxAps, MaxChannels) :
          num_aps = c[1] /\ num_channels = c[2]
    /\ base = <<>>
    /\ traffic_demand \in _generate_demand
    /\ store = NoStore
    /\ pc = "parse"
    /\ Constructed

CallParseResponse ==
    /\ pc = "parse"
    /\ \E agent \in APs, reply \in Responses :
          /\ response' = [agent |-> agent, reply |-> reply]
          /\ parsed' \in _parse_response(reply, agent)
    /\ UNCHANGED <<num_aps, num_channels, traffic_demand, base, heatmap,
                   conflict_history, success_records, store, feedback_history,
                   last_selections, selections, ap_slots, attempt,
                   current_rounds, pc, error, queries, successes, sent,
                   v3vars, covars, demand_calls>>

NextParse == CallParseResponse

SpecParse == InitParse /\ [][NextParse]_vars

(***************************************************************************)
(* SpecValidate: _validate_channels on its own, for every demand map the   *)
(* constructor can leave and every list of integers of at most             *)
(* num_channels entries, in any order, with or without duplicates and      *)
(* out-of-range entries.                                                   *)
(***************************************************************************)
ChannelLists ==
    UNION {[1 .. n -> -1 .. num_channels] : n \in 0 .. num_channels}

InitValidate ==
    /\ \E c \in Configs(MaxAps, MaxChannels) :
          num_aps = c[1] /\ num_channels = c[2]
    /\ base = <<>>
    /\ traffic_demand \in _generate_demand
    /\ store = NoStore
    /\ pc = "validate"
    /\ Constructed

CallValidateChannels ==
    /\ pc = "validate"
    /\ \E agent \in APs, channels \in ChannelLists :
          /\ response' = [agent |-> agent,
                          reply |-> [shape |-> "channels", entries |-> channels]]
          /\ parsed' \in _validate_channels(channels, agent)
    /\ UNCHANGED <<num_aps, num_channels, traffic_demand, base, heatmap,
                   conflict_history, success_records, store, feedback_history,
                   last_selections, selections, ap_slots, attempt,
                   current_rounds, pc, error, queries, successes, sent,
                   v3vars, covars, demand_calls>>

NextValidate == CallValidateChannels

SpecValidate == InitValidate /\ [][NextValidate]_vars

(***************************************************************************)
(* Spec: a TDMAv7 coordinator from its construction to the end of run.     *)
(*   pc = "query":   _negotiation_round phase 1, about to query station    *)
(*                   Len(selections) + 1                                   *)
(*   pc = "resolve": every station queried, phase 2 not yet run            *)
(*   pc = "record":  _negotiation_round returned ap_slots to run           *)
(*   pc = "done":    the for loop of run is exhausted                      *)
(*   pc = "crashed": an exception left run (error names it)                *)
(***************************************************************************)
Init ==
    /\ \E c \in Configs(MaxAps, MaxChannels) :
          num_aps = c[1] /\ num_channels = c[2]
    /\ base = <<>>
    /\ traffic_demand \in _generate_demand
    /\ store = NoStore
    /\ pc = "query"
    /\ Constructed

\* RunLoopContinues for a loop over range(1, MAX_ATTEMPTS+2)
RunLoopOneMore(a) == a < MAX_ATTEMPTS + 1

\* "for attempt in range(1, MAX_ATTEMPTS+1)": another iteration follows
\* iteration a
RunLoopContinues(a) == a < MAX_ATTEMPTS

\* generate_reply raises (timeout, transport failure): _negotiation_round
\* calls it outside any try block and run has none, so the exception leaves
\* run
QueryRaises ==
    /\ pc = "query"
    /\ sent' = QueryMessage(selections)
    /\ queries' = queries + 1
    /\ error' = "source"
    /\ pc' = "crashed"
    /\ UNCHANGED <<num_aps, num_channels, traffic_demand, base, heatmap,
                   conflict_history, success_records, store, feedback_history,
                   last_selections, selections, ap_slots, attempt,
                   current_rounds, successes, response, parsed,
                   v3vars, covars, demand_calls>>

\* generate_reply returns a reply; _parse_response turns it into the
\* station's proposal, or raises the ValueError of its fallback
QueryReply ==
    /\ pc = "query"
    /\ sent' = QueryMessage(selections)
    /\ LET ap == Len(selections) + 1
       IN  \E result \in UNION {_parse_response(reply, ap) : reply \in Responses} :
                IF result.ok
                THEN /\ selections' = Append(selections, result.slots)
                     /\ pc' = IF ap = num_aps THEN "resolve" ELSE "query"
                     /\ error' = error
                ELSE /\ selections' = selections
                     /\ pc' = "crashed"
                     /\ error' = "ValueError"
    /\ queries' = queries + 1
    /\ UNCHANGED <<num_aps, num_channels, traffic_demand, base, heatmap,
                   conflict_history, success_records, store, feedback_history,
                   last_selections, ap_slots, attempt, current_rounds,
                   successes, response, parsed, v3vars, covars, demand_calls>>

\* phase 2 of _negotiation_round, the update of last_selections and of the
\* pool statistics, and the return to run
ResolveRound ==
    /\ pc = "resolve"
    /\ \E final_selections \in ResolveFrom(selections, 1, <<>>, <<>>) :
          /\ last_selections' = final_selections
          /\ conflict_history' = ConflictHistoryAfter(final_selections)
          /\ heatmap' = HeatmapAfter(final_selections)
          /\ ap_slots' = final_selections
    /\ pc' = "record"
    /\ UNCHANGED <<num_aps, num_channels, traffic_demand, base,
                   success_records, store, feedback_history, selections,
                   attempt, current_rounds, error, queries, successes,
                   response, parsed, sent, v3vars, covars, demand_calls>>

\* the feedback run computes for the round and appends to feedback_history
RoundFeedback == get_feedback(ap_slots)
\* what _check_success returns for the round
RoundIsSuccess ==
    _check_success(ap_slots, Append(feedback_history, RoundFeedback))

\* the rest of the loop body when _check_success is false, with the demand
\* redrawn after every round
RunNoSuccessRedrawing ==
    /\ pc = "record"
    /\ ~RoundIsSuccess
    /\ feedback_history' = Append(feedback_history, RoundFeedback)
    /\ traffic_demand' \in _generate_demand
    /\ selections' = <<>>
    /\ IF RunLoopContinues(attempt)
       THEN attempt' = attempt + 1 /\ pc' = "query"
       ELSE attempt' = attempt /\ pc' = "done"
    /\ sent' = NoMessage
    /\ demand_calls' = demand_calls + 1
    /\ UNCHANGED <<num_aps, num_channels, base, heatmap,
                   conflict_history, success_records, store, last_selections,
                   ap_slots, current_rounds, error, queries, successes,
                   response, parsed, v3vars, covars>>

\* the rest of the loop body when _check_success is false
RunNoSuccess ==
    /\ pc = "record"
    /\ ~RoundIsSuccess
    /\ feedback_history' = Append(feedback_history, RoundFeedback)
    /\ selections' = <<>>
    /\ IF RunLoopContinues(attempt)
       THEN attempt' = attempt + 1 /\ pc' = "query"
       ELSE attempt' = attempt /\ pc' = "done"
    /\ sent' = NoMessage
    /\ UNCHANGED <<num_aps, num_channels, traffic_demand, base, heatmap,
                   conflict_history, success_records, store, last_selections,
                   ap_slots, current_rounds, error, queries, successes,
                   response, parsed, v3vars, covars, demand_calls>>

\* the rest of the loop body when _check_success is true and SAVE_FILE is
\* written: _save_records dumps success_records, then the demand is redrawn
RunSuccess ==
    /\ pc = "record"
    /\ RoundIsSuccess
    /\ feedback_history' = Append(feedback_history, RoundFeedback)
    /\ successes' = successes + 1
    /\ store' = Written(success_records)
    /\ traffic_demand' \in _generate_demand
    /\ selections' = <<>>
    /\ IF RunLoopContinues(attempt)
       THEN attempt' = attempt + 1 /\ pc' = "query"
       ELSE attempt' = attempt /\ pc' = "done"
    /\ sent' = NoMessage
    /\ demand_calls' = demand_calls + 1
    /\ UNCHANGED <<num_aps, num_channels, base, heatmap, conflict_history,
                   success_records, last_selections, ap_slots, current_rounds,
                   error, queries, response, parsed, v3vars, covars>>

\* _check_success is true and _save_records raises: open(SAVE_FILE, 'w')
\* raises and the store is as it was, or it truncates the file and the
\* write raises (full disk, size limit); the exception leaves run
RunStoreFails ==
    /\ pc = "record"
    /\ RoundIsSuccess
    /\ feedback_history' = Append(feedback_history, RoundFeedback)
    /\ successes' = successes + 1
    /\ store' \in {store, TruncatedStore}
    /\ error' = "store"
    /\ pc' = "crashed"
    /\ UNCHANGED <<num_aps, num_channels, traffic_demand, base, heatmap,
                   conflict_history, success_records, last_selections,
                   selections, ap_slots, attempt, current_rounds, queries,
                   response, parsed, sent, v3vars, covars, demand_calls>>

Next ==
    \/ QueryRaises
    \/ QueryReply
    \/ ResolveRound
    \/ RunNoSuccess
    \/ RunStoreFails
    \/ RunSuccess

Spec == Init /\ [][Next]_vars

(***************************************************************************)
(* FairSpec: the run of a coordinator of up to FairAps stations on         *)
(* FairChannels slots under fair scheduling: a step that can be taken is   *)
(* taken (every query returns or raises, every loop of random draws        *)
(* ends).                                                                  *)
(***************************************************************************)
FairAps == 2
FairChannels == 3

InitFair ==
    /\ \E c \in Configs(FairAps, FairChannels) :
          num_aps = c[1] /\ num_channels = c[2]
    /\ base = <<>>
    /\ traffic_demand \in _generate_demand
    /\ store = NoStore
    /\ pc = "query"
    /\ Constructed

FairSpec == InitFair /\ [][Next]_vars /\ WF_vars(Next)

(***************************************************************************)
(* SpecScarce: the run of a TDMAv7 coordinator with as many stations as    *)
(* slots, up to ScarceAps stations on ScarceChannels slots, where          *)
(* _generate_demand takes its scale-down branch most often.  The decision  *)
(* source raises, or answers a query with one of two well-formed lists.    *)
(***************************************************************************)
ScarceAps == 4
ScarceChannels == 4

\* the replies of the decision source in these runs: every slot in
\* ascending order, or the two highest slots
ScarceResponses ==
    {[shape |-> "list",
      entries |-> [i \in 1 .. num_channels |-> [k |-> "int", v |-> i - 1]]],
     [shape |-> "list",
      entries |-> <<[k |-> "int", v |-> num_channels - 1],
                    [k |-> "int", v |-> num_channels - 2]>>]}

InitScarce ==
    /\ \E c \in Configs(ScarceAps, ScarceChannels) :
          c[1] = c[2] /\ num_aps = c[1] /\ num_channels = c[2]
    /\ base = <<>>
    /\ traffic_demand \in _generate_demand
    /\ store = NoStore
    /\ pc = "query"
    /\ Constructed

\* generate_reply returns one of ScarceResponses; _parse_response turns it
\* into the station's proposal, or raises the ValueError of its fallback
ScarceQueryReply ==
    /\ pc = "query"
    /\ sent' = QueryMessage(selections)
    /\ LET ap == Len(selections) + 1
       IN  \E result \in UNION {_parse_response(reply, ap) :
                                   reply \in ScarceResponses} :
                IF result.ok
                THEN /\ selections' = Append(selections, result.slots)
                     /\ pc' = IF ap = num_aps THEN "resolve" ELSE "query"
                     /\ error' = error
                ELSE /\ selections' = selections
                     /\ pc' = "crashed"
                     /\ error' = "ValueError"
    /\ queries' = queries + 1
    /\ UNCHANGED <<num_aps, num_channels, traffic_demand, base, heatmap,
                   conflict_history, success_records, store, feedback_history,
                   last_selections, ap_slots, attempt, current_rounds,
                   successes, response, parsed, v3vars, covars, demand_calls>>

NextScarce ==
    \/ QueryRaises
    \/ ScarceQueryReply
    \/ ResolveRound
    \/ RunNoSuccess
    \/ RunStoreFails
    \/ RunSuccess

SpecScarce == InitScarce /\ [][NextScarce]_vars

(***************************************************************************)
(* TDMAv4: two stations on NUM_CHANNELS slots (8 in the source, scaled     *)
(* here), success records loaded from SAVE_FILE at construction.           *)
(***************************************************************************)
NUM_CHANNELS == 4
\* longest record list found in SAVE_FILE at construction
MaxLoaded == 2

\* a record an earlier run saved: its k-th success, stamped before this run
OldRecord(k) ==
    [ratio |-> <<NUM_CHANNELS \div 2, NUM_CHANNELS - NUM_CHANNELS \div 2>>,
     ap1_slots |-> <<0>>, ap2_slots |-> <<1>>, rounds |-> k, timestamp |-> 0]

\* what _load_previous_records hands back: the list json.load read, or the
\* exception json.load raised, which the method does not catch
Loaded(records) == [ok |-> TRUE, records |-> records]
LoadRaised == [ok |-> FALSE, records |-> <<>>]

\* what SAVE_FILE can hold before the run: nothing, a list of records, or
\* content json.load cannot read (the file a failed write of an earlier run
\* left behind)
StoredBefore ==
    {NoStore, TruncatedStore}
    \cup {Written(l) :
            l \in UNION {[1 .. n -> {OldRecord(k) : k \in 1 .. MaxLoaded}] :
                            n \in 0 .. MaxLoaded}}

\* _load_previous_records that keeps only the first record of the file
LoadFirstRecordOnly(file) ==
    IF ~file.exists THEN Loaded(<<>>)
    ELSE IF file.readable THEN Loaded(Prefix(file.records, 1))
    ELSE LoadRaised

\* FeedbackCoordinator._load_previous_records: the list in SAVE_FILE, or the
\* empty list __init__ set when the file is not found (the only exception
\* the method catches); on a file json.load cannot read, the JSONDecodeError
\* leaves the method with success_records not assigned
_load_previous_records(file) ==
    IF ~file.exists THEN Loaded(<<>>)
    ELSE IF file.readable THEN Loaded(file.records)
    ELSE LoadRaised

\* FeedbackCoordinator._generate_demand of TDMAv4: two draws in
\* 1..NUM_CHANNELS-1, redrawn until their sum is <= NUM_CHANNELS
V4_generate_demand ==
    {d \in [1 .. 2 -> 1 .. (NUM_CHANNELS - 1)] : d[1] + d[2] <= NUM_CHANNELS}

\* FeedbackCoordinator._validate_channels of TDMAv4
V4_validate_channels(channels, agent) ==
    LET expected == traffic_demand[agent]
        valid == SelectSeq(channels, LAMBDA ch : 0 <= ch /\ ch < NUM_CHANNELS)
    IN  IF Len(valid) < expected
        THEN LET need == expected - Len(valid)
                 rest == SelectSeq(RangeList(NUM_CHANNELS),
                                   LAMBDA ch : ch \notin Range(valid))
             IN  IF SampleRaises(rest, need) THEN {Raised}
                 ELSE {Returned(Sorted(Prefix(valid \o s, expected))) :
                          s \in Sample(rest, need)}
        ELSE {Returned(Sorted(Prefix(valid, expected)))}

\* FeedbackCoordinator._parse_response of TDMAv4: the except branch calls
\* self._fallback_strategy, which TDMAv4 does not define, so every failure
\* inside the try block ends in an AttributeError
V4_parse_response(reply, agent) ==
    IF reply.shape \in {"nobrace", "badjson"} THEN {Raised}
    ELSE IF \E i \in DOMAIN reply.entries : ~Coercible(reply.entries[i])
    THEN {Raised}
    ELSE V4_validate_channels(
            SortedSet({IntOf(reply.entries[i]) : i \in DOMAIN reply.entries}),
            agent)

\* FeedbackCoordinator._resolve_conflicts of TDMAv4
V4_resolve_conflicts(ap1, ap2) ==
    IF Range(ap1) \cap Range(ap2) = {} THEN {ap2}
    ELSE {Sorted(Prefix(filled, Len(ap2))) :
            filled \in UNION {FillMissing(ap1, ap2, r) :
                                r \in ReplaceColliding(ap1, ap2, 1, <<>>)}}

\* EnhancedChannelPool.get_feedback of TDMAv4 (heat_ranking left out)
V4_get_feedback(ap1, ap2) ==
    LET conflict_slots == SortedSet(Range(ap1) \cap Range(ap2))
        used_slots == Range(ap1 \o ap2)
    IN  [conflict |-> [occurred |-> Len(conflict_slots) > 0,
                       slots |-> conflict_slots,
                       count |-> Len(conflict_slots)],
         utilization |->
            [used |-> Cardinality(used_slots),
             idle |-> SelectSeq(RangeList(NUM_CHANNELS),
                                LAMBDA ch : ch \notin used_slots),
             rate |-> <<Cardinality(used_slots), NUM_CHANNELS>>]]

\* a success test that looks at the conflicts only
V4CheckConflictFree(ap1, ap2) ==
    Cardinality(Range(ap1) \cap Range(ap2)) = 0

\* FeedbackCoordinator._check_success of TDMAv4
V4_check_success(ap1, ap2) ==
    /\ Cardinality(Range(ap1) \cap Range(ap2)) = 0
    /\ Cardinality(Range(ap1 \o ap2)) = NUM_CHANNELS

\* the record run appends for a success, stamped with the round it is in
SuccessRecord ==
    [ratio |-> traffic_demand, ap1_slots |-> ap_slots[1],
     ap2_slots |-> ap_slots[2], rounds |-> current_rounds,
     timestamp |-> attempt]

\* the coordinator after __init__: constructed, or, when
\* _load_previous_records raised, the state the constructor was left in
\* (the JSONDecodeError leaves __init__ and no run follows)
InitV4 ==
    /\ num_aps = 2
    /\ num_channels = NUM_CHANNELS
    /\ base = <<>>
    /\ traffic_demand = <<NUM_CHANNELS \div 2, NUM_CHANNELS - NUM_CHANNELS \div 2>>
    /\ store \in StoredBefore
    /\ LET loaded == _load_previous_records(store)
       IN  /\ success_records = loaded.records
           /\ pc = IF loaded.ok THEN "query" ELSE "crashed"
           /\ error = IF loaded.ok THEN NoError ELSE "JSONDecodeError"
    /\ heatmap = [ch \in Slots |-> 0]
    /\ conflict_history = [ch \in Slots |-> 0]
    /\ feedback_history = <<>>
    /\ last_selections = <<<<>>, <<>>>>
    /\ selections = <<>>
    /\ ap_slots = <<>>
    /\ attempt = 1
    /\ current_rounds = 0
    /\ queries = 0
    /\ successes = 0
    /\ response = NoReply
    /\ parsed = Raised
    /\ sent = NoMessage
    /\ NoV3
    /\ NoCoTDMA
    /\ demand_calls = 0

\* run increments current_rounds and _negotiation_round asks AP1 through
\* _get_agent_decision; AP1's query raises, the except branch calls the
\* undefined _fallback_strategy and the AttributeError leaves run
V4QueryAP1Raises ==
    /\ pc = "query"
    /\ selections = <<>>
    /\ current_rounds' = current_rounds + 1
    /\ queries' = queries + 1
    /\ error' = "AttributeError"
    /\ pc' = "crashed"
    /\ UNCHANGED <<num_aps, num_channels, traffic_demand, base, heatmap,
                   conflict_history, success_records, store, feedback_history,
                   last_selections, selections, ap_slots, attempt, successes,
                   response, parsed, sent, v3vars, covars, demand_calls>>

\* AP1's query returns: ap1_init is the parsed reply, or the run ends with
\* the AttributeError of the failed parse
V4QueryAP1Reply ==
    /\ pc = "query"
    /\ selections = <<>>
    /\ current_rounds' = current_rounds + 1
    /\ queries' = queries + 1
    /\ \E result \in UNION {V4_parse_response(reply, 1) : reply \in Responses} :
          /\ selections' = IF result.ok THEN <<result.slots>> ELSE selections
          /\ pc' = IF result.ok THEN "query" ELSE "crashed"
          /\ error' = IF result.ok THEN error ELSE "AttributeError"
    /\ UNCHANGED <<num_aps, num_channels, traffic_demand, base, heatmap,
                   conflict_history, success_records, store, feedback_history,
                   last_selections, ap_slots, attempt, successes, response,
                   parsed, sent, v3vars, covars, demand_calls>>

\* AP2's generate_reply, called outside any try block, raises
V4QueryAP2Raises ==
    /\ pc = "query"
    /\ Len(selections) = 1
    /\ queries' = queries + 1
    /\ error' = "source"
    /\ pc' = "crashed"
    /\ UNCHANGED <<num_aps, num_channels, traffic_demand, base, heatmap,
                   conflict_history, success_records, store, feedback_history,
                   last_selections, selections, ap_slots, attempt,
                   current_rounds, successes, response, parsed, sent,
                   v3vars, covars, demand_calls>>

\* AP2's query returns: the rest of _negotiation_round (both proposals
\* validated, AP2's resolved against AP1's, last_selections set) and the
\* update_stats call of run
V4QueryAP2Reply ==
    /\ pc = "query"
    /\ Len(selections) = 1
    /\ queries' = queries + 1
    /\ \E first \in V4_validate_channels(selections[1], 1) :
       \E result \in UNION {V4_parse_response(reply, 2) : reply \in Responses} :
          IF ~result.ok
          THEN /\ error' = "AttributeError"
               /\ pc' = "crashed"
               /\ UNCHANGED <<selections, last_selections, ap_slots, heatmap,
                              conflict_history>>
          ELSE \E second \in V4_validate_channels(result.slots, 2) :
               \E ap2_final \in V4_resolve_conflicts(first.slots, second.slots) :
                  /\ selections' = <<first.slots, second.slots>>
                  /\ last_selections' = <<first.slots, ap2_final>>
                  /\ ap_slots' = <<first.slots, ap2_final>>
                  /\ conflict_history' =
                        [ch \in Slots |->
                            IF ch \in Range(first.slots) \cap Range(ap2_final)
                            THEN conflict_history[ch] + 1
                            ELSE conflict_history[ch]]
                  /\ heatmap' =
                        [ch \in Slots |->
                            IF ch \in Range(first.slots \o ap2_final)
                            THEN heatmap[ch] + 1 ELSE heatmap[ch]]
                  /\ pc' = "record"
                  /\ error' = error
    /\ UNCHANGED <<num_aps, num_channels, traffic_demand, base,
                   success_records, store, feedback_history, attempt,
                   current_rounds, successes, response, parsed, sent,
                   v3vars, covars, demand_calls>>

\* the rest of the loop body of run when _check_success is false
V4RunNoSuccess ==
    /\ pc = "record"
    /\ ~V4_check_success(ap_slots[1], ap_slots[2])
    /\ feedback_history' =
          Append(feedback_history, V4_get_feedback(ap_slots[1], ap_slots[2]))
    /\ selections' = <<>>
    /\ IF RunLoopContinues(attempt)
       THEN attempt' = attempt + 1 /\ pc' = "query"
       ELSE attempt' = attempt /\ pc' = "done"
    /\ UNCHANGED <<num_aps, num_channels, traffic_demand, base, heatmap,
                   conflict_history, success_records, store, last_selections,
                   ap_slots, current_rounds, error, queries, successes,
                   response, parsed, sent, v3vars, covars, demand_calls>>

\* _check_success is true and _save_records raises: the record is appended
\* to success_records, then open(SAVE_FILE, 'w') raises and the store is as
\* it was, or it truncates the file and the write raises; the exception
\* leaves run with the demand not redrawn
V4RunStoreFails ==
    /\ pc = "record"
    /\ V4_check_success(ap_slots[1], ap_slots[2])
    /\ feedback_history' =
          Append(feedback_history, V4_get_feedback(ap_slots[1], ap_slots[2]))
    /\ successes' = successes + 1
    /\ success_records' = Append(success_records, SuccessRecord)
    /\ store' \in {store, TruncatedStore}
    /\ error' = "store"
    /\ pc' = "crashed"
    /\ UNCHANGED <<num_aps, num_channels, traffic_demand, base, heatmap,
                   conflict_history, last_selections, selections, ap_slots,
                   attempt, current_rounds, queries, response, parsed, sent,
                   v3vars, covars, demand_calls>>

\* the rest of the loop body of run when _check_success is true and
\* SAVE_FILE is written: the record is appended, the whole list is written
\* to SAVE_FILE, the demand is redrawn and current_rounds starts again
V4RunSuccess ==
    /\ pc = "record"
    /\ V4_check_success(ap_slots[1], ap_slots[2])
    /\ feedback_history' =
          Append(feedback_history, V4_get_feedback(ap_slots[1], ap_slots[2]))
    /\ successes' = successes + 1
    /\ success_records' = Append(success_records, SuccessRecord)
    /\ store' = Written(success_records')
    /\ traffic_demand' \in V4_generate_demand
    /\ current_rounds' = 0
    /\ selections' = <<>>
    /\ IF RunLoopContinues(attempt)
       THEN attempt' = attempt + 1 /\ pc' = "query"
       ELSE attempt' = attempt /\ pc' = "done"
    /\ demand_calls' = demand_calls + 1
    /\ UNCHANGED <<num_aps, num_channels, base, heatmap, conflict_history,
                   last_selections, ap_slots, error, queries, response, parsed,
                   sent, v3vars, covars>>

NextV4 ==
    \/ V4QueryAP1Raises
    \/ V4QueryAP1Reply
    \/ V4QueryAP2Raises
    \/ V4QueryAP2Reply
    \/ V4RunNoSuccess
    \/ V4RunStoreFails
    \/ V4RunSuccess

SpecV4 == InitV4 /\ [][NextV4]_vars

(***************************************************************************)
(* Claims on _generate_demand.                                             *)
(***************************************************************************)
\* C2: the demand map _generate_demand returns has one entry per station and
\* its values sum to exactly num_channels, in the branch where the base sum
\* is <= num_channels and in the scale-down branch alike.
C2_DemandSumsToChannels ==
    /\ DOMAIN traffic_demand = APs
    /\ Sum(traffic_demand) = num_channels

\* a demand map returned by the scale-down branch after a drift correction
C2_Witness ==
    /\ Sum(base) > num_channels
    /\ \E i \in APs : traffic_demand[i] # Max(1, PyRound(base[i] * num_channels, Sum(base)))
    /\ Sum(traffic_demand) = num_channels

\* C3: every value of the demand map _generate_demand returns is >= 1, also
\* after the one-unit-at-a-time drift correction of the scale-down branch.
C3_DemandAtLeastOne == \A i \in APs : traffic_demand[i] >= 1

(***************************************************************************)
(* Claims on _parse_response.                                              *)
(***************************************************************************)
WellFormed(l, d) ==
    /\ Len(l) = d
    /\ \A i \in DOMAIN l : l[i] \in Slots
    /\ \A i, j \in DOMAIN l : i < j => l[i] < l[j]

\* C4: for a station whose demand d satisfies 1 <= d <= num_channels and any
\* raw reply, _parse_response returns without raising a list of exactly d
\* slots, all in [0, num_channels), without duplicates, sorted ascending.
C4_ParseTotalAndWellFormed ==
    (/\ response.agent \in APs
     /\ traffic_demand[response.agent] >= 1
     /\ traffic_demand[response.agent] <= num_channels)
    => (parsed.ok /\ WellFormed(parsed.slots, traffic_demand[response.agent]))

\* a reply with an out-of-range entry and a duplicate, repaired to demand 2
C4_Witness ==
    /\ response.agent \in APs
    /\ traffic_demand[response.agent] = 2
    /\ response.reply.shape = "list"
    /\ Len(response.reply.entries) = 2
    /\ IntOf(response.reply.entries[1]) = num_channels
    /\ parsed.ok
    /\ Len(parsed.slots) = 2

(***************************************************************************)
(* Claims on the TDMAv7 round and run loop.                                *)
(***************************************************************************)
Disjoint(lists) ==
    \A a, b \in DOMAIN lists :
        a # b => Range(lists[a]) \cap Range(lists[b]) = {}

\* C1: after the conflict-resolution phase of every round, the final slot
\* lists of any two distinct stations share no slot, whatever the stations'
\* candidate sets were.
C1_FinalSelectionsDisjoint == Disjoint(ap_slots) /\ Disjoint(last_selections)

\* three stations whose candidate sets all contain one same slot have been
\* resolved
C1_Witness ==
    /\ pc = "record"
    /\ num_aps = 3
    /\ \E ch \in Slots : \A i \in APs : ch \in Range(selections[i])
    /\ \A i \in APs : ap_slots[i] # <<>>

\* C5: an error raised by the decision source while a station is queried is
\* caught and the run goes on: the run never ends because of it.
C5_SourceErrorNeverEndsRun == ~(pc = "crashed" /\ error = "source")

\* C6: a round is treated as a success only if its utilization is 1.0 and
\* no slot appeared in more than one station's pre-resolution proposal.
C6_SuccessOnlyWithoutRawConflicts ==
    (pc = "record" /\ RoundIsSuccess)
    => (/\ RoundFeedback.utilization.rate[1] = RoundFeedback.utilization.rate[2]
        /\ ConflictSlots(selections) = <<>>)

\* C7: a round in which some station ends conflict resolution with fewer
\* slots than its demand has a utilization rate below 1.0 and is not treated
\* as a success.
C7_ShortfallIsNoSuccess ==
    (pc = "record" /\ \E i \in APs : Len(ap_slots[i]) < traffic_demand[i])
    => (/\ RoundFeedback.utilization.rate[1] < RoundFeedback.utilization.rate[2]
        /\ ~RoundIsSuccess)

\* C8: after k successes of a run whose store writes completed,
\* success_records holds k records and so does the stored collection.
C8_EverySuccessIsRecorded ==
    (error = NoError)
    => (/\ Len(success_records) = successes
        /\ (successes > 0 => store.exists /\ Len(store.records) = successes))

Terminated == pc \in {"done", "crashed"}

\* C10: the run loop executes at most MAX_ATTEMPTS rounds and then
\* terminates; once it has, no decision-source query is issued and the pool
\* counters and the success records are not modified.
C10_RunTerminates ==
    /\ <>Terminated
    /\ [](Len(feedback_history) <= MAX_ATTEMPTS)
    /\ [][Terminated => UNCHANGED <<queries, heatmap, conflict_history,
                                    success_records>>]_vars

\* the loop ran all its rounds, one of them a success, and stopped
C10_Witness ==
    /\ pc = "done"
    /\ Len(feedback_history) = MAX_ATTEMPTS
    /\ queries = MAX_ATTEMPTS * num_aps
    /\ successes >= 1

(***************************************************************************)
(* Claims on the TDMAv4 record collection.                                 *)
(***************************************************************************)
\* C9: the success-record collection is append-only across runs: the
\* records loaded at startup are never removed or reordered, each success
\* appends exactly one record at the end, and after every success the store
\* holds the loaded records followed by all records added in this run.
C9_RecordsAppendOnly ==
    /\ [](store.records = success_records)
    /\ [][/\ successes' = successes => success_records' = success_records
          /\ successes' # successes =>
                /\ successes' = successes + 1
                /\ Len(success_records') = Len(success_records) + 1
                /\ SubSeq(success_records', 1, Len(success_records))
                      = success_records
                /\ success_records'[Len(success_records')].timestamp = attempt
                /\ store' = Written(success_records')]_vars

\* two loaded records followed by the records of two successes of this run,
\* in memory and in the store
C9_Witness ==
    /\ successes = 2
    /\ Len(success_records) = 4
    /\ success_records[1] = OldRecord(2)
    /\ success_records[2] = OldRecord(1)
    /\ success_records[3].timestamp = 1
    /\ success_records[4].timestamp = 2
    /\ store.records = success_records

(***************************************************************************)
(* Claims on the TDMAv4 round.                                             *)
(***************************************************************************)
\* C11: in TDMAv4 a malformed or absent proposal (no brace-delimited
\* structure, JSON that does not parse, a failing AP1 query) is replaced by
\* a fallback selection and never ends the run: the run is never left by the
\* AttributeError of the recovery path.
C11_V4MalformedIsRecovered == ~(pc = "crashed" /\ error = "AttributeError")

(***************************************************************************)
(* Claims on _validate_channels (TDMAv7).                                  *)
(***************************************************************************)
\* the list handed to _validate_channels has exactly the station's demand
\* entries, all distinct, all in [0, num_channels)
ValidatedInputIsWellFormed ==
    /\ response.reply.shape = "channels"
    /\ Len(response.reply.entries) = traffic_demand[response.agent]
    /\ \A i \in DOMAIN response.reply.entries : response.reply.entries[i] \in Slots
    /\ \A i, j \in DOMAIN response.reply.entries :
          i # j => response.reply.entries[i] # response.reply.entries[j]

\* C12: _validate_channels applied to an already well-formed list returns the
\* same slots sorted ascending, and validating the returned list again
\* returns it unchanged.
C12_ValidateWellFormedIsSorting ==
    ValidatedInputIsWellFormed
    => (/\ parsed = Returned(Sorted(response.reply.entries))
        /\ Range(parsed.slots) = Range(response.reply.entries)
        /\ _validate_channels(parsed.slots, response.agent) = {parsed})

\* a well-formed list of two slots in descending order has been validated
C12_Witness ==
    /\ ValidatedInputIsWellFormed
    /\ Len(response.reply.entries) = 2
    /\ response.reply.entries[1] > response.reply.entries[2]
    /\ parsed.ok
    /\ parsed.slots = <<response.reply.entries[2], response.reply.entries[1]>>

(***************************************************************************)
(* Claims on the pool statistics of a TDMAv7 round.                        *)
(***************************************************************************)
\* C13: the update_stats call of a round raises heatmap[s], for every slot
\* s, by exactly the number of stations whose final set contains s, once
\* per (station, slot) pair of the final allocation.
C13_HeatCountsStationSlotPairs ==
    [][(pc = "resolve" /\ pc' = "record")
       => \A s \in Slots :
             heatmap'[s] = heatmap[s]
                + Cardinality({i \in APs : s \in Range(ap_slots'[i])})]_vars

\* slots that appear in the pre-resolution proposal of more than one station
ContestedSlots ==
    {s \in Slots :
        Cardinality({i \in DOMAIN selections : s \in Range(selections[i])}) > 1}

\* C14: the update_stats call of a round raises conflict_history[s] by 1 for
\* every slot s that appears in the raw (pre-resolution) proposal of more
\* than one station, and leaves the other slots' conflict_history as it was.
C14_RawConflictsAreCounted ==
    [][(pc = "resolve" /\ pc' = "record")
       => \A s \in Slots :
             conflict_history'[s] =
                conflict_history[s] + (IF s \in ContestedSlots THEN 1 ELSE 0)]_vars

\* slot s was in some station's final list of a round handed to the pool
Touched(s) ==
    \/ s \in Range(Flatten(ap_slots))
    \/ \E k \in DOMAIN feedback_history :
          s \notin Range(feedback_history[k].utilization.idle)

\* C15: across the rounds of a run the heat counter and the conflict-history
\* counter of every slot never decrease, and a slot that was never touched
\* reads as 0 in both.
C15_PoolCountersMonotone ==
    /\ [][\A s \in Slots : /\ heatmap'[s] >= heatmap[s]
                           /\ conflict_history'[s] >= conflict_history[s]]_vars
    /\ [](\A s \in Slots :
            ~Touched(s) => (heatmap[s] = 0 /\ conflict_history[s] = 0))

\* after two rounds one slot has collected heat in both and another slot was
\* never in a final list
C15_Witness ==
    /\ Len(feedback_history) = 2
    /\ \E s \in Slots : heatmap[s] >= 3 /\ conflict_history[s] >= 1
    /\ \E t \in Slots : ~Touched(t) /\ heatmap[t] = 0

(***************************************************************************)
(* Claims on _resolve_conflicts (TDMAv7).                                  *)
(***************************************************************************)
\* C16: the slot that replaces a colliding slot of a station is neither held
\* by an earlier station nor part of the station's own candidate set, so no
\* station's final list holds a slot twice.
C16_NoDuplicateInFinalSet ==
    \A i \in DOMAIN ap_slots :
        \A j, k \in DOMAIN ap_slots[i] :
            j # k => ap_slots[i][j] # ap_slots[i][k]

\* the slots of the stations before station i in the final lists
HeldByEarlier(lists, i) == UNION {Range(lists[k]) : k \in 1 .. (i - 1)}

\* C17: when no free slot remains to replace a colliding slot,
\* _resolve_conflicts raises no error: every station's resolution returns a
\* list, of slots no earlier station holds and of at most as many slots as
\* proposed, and the round goes on with no error to the statistics update
\* (the heat of the final lists is added) and to the feedback of run.
C17_ExhaustionIsNoError ==
    /\ [](pc = "resolve" => ResolveFrom(selections, 1, <<>>, <<>>) # {})
    /\ [](pc = "record" =>
            /\ error = NoError
            /\ DOMAIN ap_slots = APs
            /\ \A i \in APs :
                  /\ Range(ap_slots[i]) \cap HeldByEarlier(ap_slots, i) = {}
                  /\ Range(ap_slots[i]) \subseteq Slots
                  /\ Len(ap_slots[i]) <= Len(selections[i]))
    /\ [][pc = "resolve" =>
            /\ pc' = "record"
            /\ heatmap' = [s \in Slots |->
                              heatmap[s] + Count(Flatten(ap_slots'), s)]]_vars
    /\ [][pc = "record" =>
            feedback_history' = Append(feedback_history, RoundFeedback)]_vars

\* every slot is held when a station's turn comes: one station that proposed
\* a slot ends the round with none, another with fewer slots than proposed
C17_Witness ==
    /\ pc = "record"
    /\ error = NoError
    /\ \E i \in APs : selections[i] # <<>> /\ ap_slots[i] = <<>>
    /\ Cardinality(Range(Flatten(ap_slots))) = num_channels

(***************************************************************************)
(* Claims on the demand and the store across the rounds of a TDMAv7 run.   *)
(***************************************************************************)
\* C18: traffic_demand is left unchanged by every round that is not a
\* success (by its queries, its resolution and the rest of the loop body,
\* none of which calls _generate_demand), and every success round ends with
\* exactly one call of _generate_demand, whose result becomes the demand
\* before any query of the next round.
C18_DemandRegeneratedAfterEverySuccess ==
    [][/\ (pc # "record" \/ ~RoundIsSuccess)
             => /\ traffic_demand' = traffic_demand
                /\ demand_calls' = demand_calls
       /\ (pc = "record" /\ RoundIsSuccess)
             => /\ demand_calls' = demand_calls + 1
                /\ traffic_demand' \in _generate_demand
                /\ queries' = queries]_vars

\* round 1 was a success and round 2 is about to query under a demand that
\* differs from the sizes of round 1's lists
C18_Witness ==
    /\ pc = "query"
    /\ attempt = 2
    /\ successes = 1
    /\ selections = <<>>
    /\ demand_calls = 2
    /\ \E i \in APs : traffic_demand[i] # Len(ap_slots[i])

(***************************************************************************)
(* Claims on the TDMAv4 success records.                                   *)
(***************************************************************************)
\* C19: in TDMAv4 the record appended for a success carries a rounds value
\* equal to the index of the round (the attempt number of the run loop) in
\* which the success occurred.
C19_V4RecordRoundsIsRoundIndex ==
    [][successes' = successes + 1
       => success_records'[Len(success_records')].rounds = attempt]_vars

(***************************************************************************)
(* Claims on a failing store write (TDMAv7).                               *)
(***************************************************************************)
\* C20: a failure to write the record store in a success round does not
\* stop the allocation logic: the run is never ended by it, the demand is
\* regenerated and the following rounds are executed.
C20_StoreFailureNeverEndsRun == ~(pc = "crashed" /\ error = "store")

(***************************************************************************)
(* Claims on the repair of a proposal by _parse_response and               *)
(* _validate_channels (TDMAv7).                                            *)
(***************************************************************************)
\* the reply handed to _parse_response is a channels list whose entries
\* int() accepts
ReplyIsCoercibleList ==
    /\ response.agent \in APs
    /\ response.reply.shape = "list"
    /\ \A i \in DOMAIN response.reply.entries : Coercible(response.reply.entries[i])

\* the in-range slots among the entries of the reply
Survivors ==
    {IntOf(response.reply.entries[i]) : i \in DOMAIN response.reply.entries}
        \cap Slots

\* slot s is cooler than slot t: lower heat, ties broken by the lower index
Cooler(s, t) == heatmap[s] < heatmap[t] \/ (heatmap[s] = heatmap[t] /\ s < t)

\* the need coolest slots outside the set excluding
CoolestSlots(need, excluding) ==
    {s \in Slots \ excluding :
        Cardinality({t \in Slots \ excluding : Cooler(t, s)}) < need}

\* C21: when fewer valid entries survive than the station's demand,
\* _validate_channels fills the missing slots with the lowest-heat slots not
\* already in the set, ties broken by the lowest index.
C21_FillTakesCoolestSlots ==
    (/\ ReplyIsCoercibleList
     /\ Cardinality(Survivors) < traffic_demand[response.agent]
     /\ traffic_demand[response.agent] <= num_channels
     /\ parsed.ok)
    => Range(parsed.slots) =
          Survivors
          \cup CoolestSlots(traffic_demand[response.agent] - Cardinality(Survivors),
                            Survivors)

\* the in-range slots among the entries of the reply that int() accepts
CoercibleSurvivors ==
    {IntOf(response.reply.entries[i]) :
        i \in {k \in DOMAIN response.reply.entries :
                  Coercible(response.reply.entries[k])}}
        \cap Slots

\* C23: an entry of a proposal that cannot be coerced to an integer or lies
\* outside [0, num_channels) is discarded on its own: every other in-range
\* entry of the proposal is in the validated list whenever the survivors
\* number at most the station's demand.
C23_BadEntryIsDiscardedAlone ==
    (/\ response.agent \in APs
     /\ response.reply.shape = "list"
     /\ parsed.ok
     /\ Cardinality(CoercibleSurvivors) <= traffic_demand[response.agent])
    => CoercibleSurvivors \subseteq Range(parsed.slots)

(***************************************************************************)
(* Claims on the order of a TDMAv7 round.                                  *)
(***************************************************************************)
\* C25: within a round the stations are queried one at a time in the fixed
\* order AP1..APn, the context sent to station k holds exactly the validated
\* selections of stations 1..k-1 of the same round (none for AP1), and
\* conflict resolution starts only after every station has been queried.
C25_QueriesInOrderThenResolution ==
    /\ [][queries' = queries + 1
          => /\ sent'.agent = sent.agent + 1
             /\ sent'.agent \in APs
             /\ Len(selections) = sent.agent
             /\ sent'.existing_slots = Flatten(selections)
             /\ (sent'.agent = 1 => sent'.existing_slots = <<>>)
             /\ (pc' # "crashed" =>
                    /\ SubSeq(selections', 1, Len(selections)) = selections
                    /\ Len(selections') = sent'.agent)]_vars
    /\ [](pc = "resolve" => sent.agent = num_aps /\ Len(selections) = num_aps)
    /\ [][pc' = "resolve" => pc = "query" /\ queries' = queries + 1]_vars
    /\ [][ap_slots' # ap_slots => pc = "resolve"]_vars

\* the third station of a round has been asked with the selections of the
\* first two in its context, and resolution is about to start
C25_Witness ==
    /\ pc = "resolve"
    /\ num_aps = 3
    /\ sent.agent = 3
    /\ selections[1] # <<>>
    /\ selections[2] # <<>>
    /\ sent.existing_slots = selections[1] \o selections[2]

(***************************************************************************)
(* Claims on what _resolve_conflicts keeps (TDMAv7).                       *)
(***************************************************************************)
\* C26: every candidate slot of a station that no earlier station holds is
\* kept in the station's final set; a station whose candidate set collides
\* with no earlier station keeps it unchanged, and AP1's final set always
\* equals its validated candidate set.
C26_FreeCandidatesAreKept ==
    pc = "record" =>
        /\ \A i \in APs :
              /\ Range(selections[i]) \ HeldByEarlier(ap_slots, i)
                    \subseteq Range(ap_slots[i])
              /\ (Range(selections[i]) \cap HeldByEarlier(ap_slots, i) = {}
                    => ap_slots[i] = selections[i])
        /\ ap_slots[1] = selections[1]

\* a later station lost one candidate to an earlier station and kept
\* another, while a third station collided with nobody
C26_Witness ==
    /\ pc = "record"
    /\ \E i \in APs :
          /\ Range(selections[i]) \cap HeldByEarlier(ap_slots, i) # {}
          /\ Range(selections[i]) \ HeldByEarlier(ap_slots, i) # {}
          /\ ap_slots[i] # selections[i]
    /\ \E i \in APs :
          /\ i > 1
          /\ selections[i] # <<>>
          /\ Range(selections[i]) \cap HeldByEarlier(ap_slots, i) = {}

(***************************************************************************)
(* Claims on the length of the final lists (TDMAv7).                       *)
(***************************************************************************)
\* every station demands at least one slot and the demands add up to the
\* number of slots
DemandFitsDomain ==
    /\ \A i \in APs : traffic_demand[i] >= 1
    /\ Sum(traffic_demand) = num_channels

\* C27: when all demand values are at least 1 and sum to num_channels, every
\* station's final list after conflict resolution has exactly as many
\* entries as the station demands, all of them in [0, num_channels): a
\* replacement is always available and no list is cut short by exhaustion.
C27_FinalListsMeetDemand ==
    (pc = "record" /\ DemandFitsDomain) =>
        \A i \in APs :
            /\ Len(ap_slots[i]) = traffic_demand[i]
            /\ Range(ap_slots[i]) \subseteq Slots

\* the last of three stations proposed only slots held by the earlier two
\* and all of them were replaced
C27_Witness ==
    /\ pc = "record"
    /\ DemandFitsDomain
    /\ num_aps = 3
    /\ selections[3] # <<>>
    /\ Range(selections[3]) \subseteq HeldByEarlier(ap_slots, 3)
    /\ Len(ap_slots[3]) = traffic_demand[3]
    /\ ap_slots[2] # selections[2]

(***************************************************************************)
(* Claims on the TDMAv4 demand across the rounds of a run.                 *)
(***************************************************************************)
\* C28: in TDMAv4 a round is a success only while the two demands sum to
\* NUM_CHANNELS; once the demand in force sums to less, no later round of
\* the run is a success and traffic_demand never changes again.
C28_V4LowDemandEndsSuccesses ==
    /\ [][successes' = successes + 1
          => Sum(traffic_demand) = NUM_CHANNELS]_vars
    /\ [][Sum(traffic_demand) < NUM_CHANNELS
          => /\ traffic_demand' = traffic_demand
             /\ successes' = successes
             /\ success_records' = success_records]_vars

\* round 1 was a success, the demand drawn after it sums to less than
\* NUM_CHANNELS, and round 2 ended conflict-free without being a success
C28_Witness ==
    /\ pc = "done"
    /\ attempt = 2
    /\ successes = 1
    /\ Len(feedback_history) = 2
    /\ Sum(traffic_demand) < NUM_CHANNELS
    /\ Range(ap_slots[1]) \cap Range(ap_slots[2]) = {}
    /\ Len(ap_slots[1]) = traffic_demand[1]
    /\ Len(ap_slots[2]) = traffic_demand[2]

(***************************************************************************)
(* DynamicChannelCoordinator of TDMAv3 (src/src/ap/TDMAv3.py): two         *)
(* stations on NUM_CHANNELS slots.  A function that reads                  *)
(* self.traffic_demand takes the value it reads as a parameter.            *)
(***************************************************************************)
\* largest demand of a station handed to _validate_channels alone
V3MaxDemand == 3

\* the channels of a reply that int(float(ch)) accepts and that lie in
\* [0, NUM_CHANNELS), as integers and in reply order; an entry the
\* conversion rejects is skipped on its own
V3InRange(channels) ==
    LET ints == [i \in DOMAIN channels |->
                    IF Coercible(channels[i]) THEN IntOf(channels[i]) ELSE -1]
    IN  SelectSeq(ints, LAMBDA ch : 0 <= ch /\ ch < NUM_CHANNELS)

\* DynamicChannelCoordinator._validate_channels: every list it can return
V3_validate_channels(channels, expected_num) ==
    LET unique == FirstSeen(V3InRange(channels))
        current_num == Len(unique)
    IN  IF current_num < expected_num
        THEN LET available == SelectSeq(RangeList(NUM_CHANNELS),
                                        LAMBDA ch : ch \notin Range(unique))
                 need == expected_num - current_num
                 add == IF need < Len(available) THEN need ELSE Len(available)
                 remaining == need - add
                 filled == unique \o Prefix(available, add)
             IN  IF remaining > 0
                 THEN {Sorted(Prefix(filled \o c, expected_num)) :
                          c \in [1 .. remaining -> 0 .. (NUM_CHANNELS - 1)]}
                 ELSE {Sorted(Prefix(filled, expected_num))}
        ELSE {Sorted(Prefix(unique, expected_num))}

(***************************************************************************)
(* SpecV3Validate: _validate_channels of TDMAv3 on its own, for every      *)
(* demand up to V3MaxDemand and every channels list of up to MaxRaw        *)
(* entries.                                                                *)
(***************************************************************************)
InitV3Validate ==
    /\ num_aps = 2
    /\ num_channels = NUM_CHANNELS
    /\ traffic_demand \in [1 .. 2 -> 1 .. V3MaxDemand]
    /\ \E agent \in 1 .. 2, l \in RawLists :
          response = [agent |-> agent,
                      reply |-> [shape |-> "list", entries |-> l]]
    /\ parsed = Raised
    /\ pc = "v3validate"
    /\ base = <<>>
    /\ heatmap = <<>>
    /\ conflict_history = <<>>
    /\ success_records = <<>>
    /\ store = NoStore
    /\ feedback_history = <<>>
    /\ last_selections = <<>>
    /\ selections = <<>>
    /\ ap_slots = <<>>
    /\ attempt = 0
    /\ current_rounds = 0
    /\ error = NoError
    /\ queries = 0
    /\ successes = 0
    /\ sent = NoMessage
    /\ NoV3
    /\ NoCoTDMA
    /\ demand_calls = 0

CallV3ValidateChannels ==
    /\ pc = "v3validate"
    /\ \E l \in V3_validate_channels(response.reply.entries,
                                     traffic_demand[response.agent]) :
          parsed' = Returned(l)
    /\ pc' = "returned"
    /\ UNCHANGED <<num_aps, num_channels, traffic_demand, base, heatmap,
                   conflict_history, success_records, store, feedback_history,
                   last_selections, selections, ap_slots, attempt,
                   current_rounds, error, queries, successes, response, sent,
                   v3vars, covars, demand_calls>>

NextV3Validate == CallV3ValidateChannels

SpecV3Validate == InitV3Validate /\ [][NextV3Validate]_vars

(***************************************************************************)
(* Claims on _validate_channels of TDMAv3.                                 *)
(***************************************************************************)
\* the distinct in-range slots among the entries handed to the call
V3Survivors == Range(V3InRange(response.reply.entries))

\* C22: when more distinct in-range entries survive than the station
\* expects, the list _validate_channels of TDMAv3 returns is the expected
\* number of smallest survivors, whatever the order of the raw entries.
C22_V3TruncationKeepsSmallest ==
    (/\ pc = "returned"
     /\ Cardinality(V3Survivors) > traffic_demand[response.agent])
    => parsed.slots =
          Prefix(SortedSet(V3Survivors), traffic_demand[response.agent])

(***************************************************************************)
(* The rounds of DynamicChannelCoordinator.run (TDMAv3).                   *)
(*                                                                         *)
(* The level of a predictor is a double, or unset.                         *)
(* list(set) of slot numbers lists them in ascending order.                *)
(***************************************************************************)
\* rounds of the run loop (the source loops until interrupted)
V3MaxAttempts == 2
\* generate_reply calls of a run
V3MaxQueries == 5
\* attempts between two demand updates (3 in the source)
TRAFFIC_UPDATE_INTERVAL == 2

\* a reply as _parse_response of TDMAv3 reads it: the shapes of Responses
\* (without "{...}", with rejected JSON or without the key, the channels are
\* []), and shape "scalar", a JSON object whose "channels" is a number
V3Responses == Responses \cup {[shape |-> "scalar", entries |-> <<>>]}

\* DynamicChannelCoordinator._fallback_strategy
V3_fallback_strategy(demand) ==
    LET k == IF demand < 3 THEN demand ELSE 3
    IN  IF SampleRaises(RangeList(NUM_CHANNELS), k) THEN {Raised}
        ELSE {Returned(Sorted(s)) : s \in Sample(RangeList(NUM_CHANNELS), k)}

\* DynamicChannelCoordinator._parse_response: iterating a number raises and
\* the except branch answers with the fallback
V3_parse_response(reply, demand) ==
    IF reply.shape = "scalar" THEN V3_fallback_strategy(demand)
    ELSE {Returned(l) : l \in V3_validate_channels(reply.entries, demand)}

\* DynamicChannelCoordinator._priority_resolution
V3_priority_resolution(priority_chs, other_chs) ==
    LET available == SelectSeq(RangeList(NUM_CHANNELS),
                               LAMBDA ch : ch \notin Range(priority_chs))
        kept == Range(other_chs) \ Range(priority_chs)
        required == Len(other_chs) - Cardinality(kept)
    IN  IF Len(available) >= required
        THEN {Returned(Prefix(Sorted(SortedSet(kept) \o s), 3)) :
                 s \in Sample(available, required)}
        ELSE IF SampleRaises(RangeList(NUM_CHANNELS), Len(other_chs))
             THEN {Raised}
             ELSE {Returned(s) :
                      s \in Sample(RangeList(NUM_CHANNELS), Len(other_chs))}

\* DynamicChannelCoordinator._balanced_resolution
V3_balanced_resolution(ap1_chs, ap2_chs) ==
    LET common == SortedSet(Range(ap1_chs) \cap Range(ap2_chs))
        unique_ap2 == SortedSet(Range(ap2_chs) \ Range(common))
        available == SelectSeq(RangeList(NUM_CHANNELS),
                               LAMBDA ch : ch \notin Range(ap1_chs \o ap2_chs))
        keep_num == IF Len(common) < 1 THEN Len(common) ELSE 1
        new_chs == unique_ap2 \o Prefix(common, keep_num)
    IN  {Returned(Prefix(Sorted(new_chs \o Prefix(available, 3 - Len(new_chs))),
                         3))}

\* DynamicChannelCoordinator._resolve_conflict; weight > 0.6 and
\* weight < 0.4 on the quotient AP1 / (AP1 + AP2), in tenths
V3_resolve_conflict(demand, ap1_chs, ap2_chs) ==
    IF Range(ap1_chs) \cap Range(ap2_chs) = {} THEN {Returned(ap2_chs)}
    ELSE IF 10 * demand[1] > 6 * (demand[1] + demand[2])
    THEN V3_priority_resolution(ap1_chs, ap2_chs)
    ELSE IF 10 * demand[1] < 4 * (demand[1] + demand[2])
    THEN V3_priority_resolution(ap2_chs, ap1_chs)
    ELSE V3_balanced_resolution(ap1_chs, ap2_chs)

\* SimpleExpSmoothing.__init__: level is None
NoLevel == [set |-> FALSE, value |-> DoubleOfInt(0)]

\* SimpleExpSmoothing.predict
V3Predict(p) == IF p.set THEN p.value ELSE DoubleOfInt(1)

\* SimpleExpSmoothing.update for a predictor of the given alpha
V3Update(p, alpha, new_value) ==
    IF ~p.set THEN [set |-> TRUE, value |-> DoubleOfInt(new_value)]
    ELSE [set |-> TRUE,
          value |-> DoubleAdd(DoubleMul(alpha, DoubleOfInt(new_value)),
                              DoubleMul(DoubleSub(DoubleOfInt(1), alpha),
                                        p.value))]

\* the largest value random.random() returns: 1 - 2^-53
RandomMost == Double(FALSE, {0 - j : j \in 1 .. 53})

\* random.uniform(a, b) for the value r of random.random()
V3Uniform(a, b, r) == DoubleAdd(a, DoubleMul(DoubleSub(b, a), r))

\* max(1, round(predict() + random.uniform(a, b))): random.random() returns
\* a multiple of 2^-53 in [0, 1); the sum does not decrease when
\* random.random() grows and two neighbouring values move it by less than
\* 1, so the draws are the integers from the one of the least value to the
\* one of the largest
V3DemandDraws(p, a, b) ==
    LET lo == DoubleRound(DoubleAdd(V3Predict(p),
                                    V3Uniform(a, b, DoubleOfInt(0))))
        hi == DoubleRound(DoubleAdd(V3Predict(p),
                                    V3Uniform(a, b, RandomMost)))
    IN  {Max(1, r) : r \in lo .. hi}

\* DynamicChannelCoordinator._update_traffic_demand: every pair of the new
\* traffic_demand and the new predictor levels
V3_update_traffic_demand(att) ==
    IF att % TRAFFIC_UPDATE_INTERVAL = 0
    THEN {<<new_demand,
            <<V3Update(traffic_predictor[1], DoubleLiteral(7, 10),
                       traffic_demand[1]),
              V3Update(traffic_predictor[2], DoubleLiteral(5, 10),
                       traffic_demand[2])>>>> :
             new_demand \in
                {<<d1, d2>> :
                    d1 \in V3DemandDraws(traffic_predictor[1],
                                         DoubleLiteral(-5, 10), DoubleOfInt(1)),
                    d2 \in V3DemandDraws(traffic_predictor[2],
                                         DoubleLiteral(-3, 10),
                                         DoubleLiteral(8, 10))}}
    ELSE {<<traffic_demand, traffic_predictor>>}

\* DynamicChannelCoordinator._record_history
V3_record_history(ap1_chs, ap2_chs) ==
    LET conflict == Cardinality(Range(ap1_chs) \cap Range(ap2_chs))
    IN  [AP1 |-> Append(channel_history.AP1, ap1_chs),
         AP2 |-> Append(channel_history.AP2, ap2_chs),
         throughput |-> Append(channel_history.throughput,
                               Len(ap1_chs) * traffic_demand[1]
                               + Len(ap2_chs) * traffic_demand[2]
                               - conflict * 2),
         conflicts |-> channel_history.conflicts + conflict]

\* DynamicChannelCoordinator.__init__ and the first lines of run
InitV3 ==
    /\ num_aps = 2
    /\ num_channels = NUM_CHANNELS
    /\ traffic_demand = <<1, 1>>
    /\ traffic_predictor = <<NoLevel, NoLevel>>
    /\ channel_history =
          [AP1 |-> <<>>, AP2 |-> <<>>, throughput |-> <<>>, conflicts |-> 0]
    /\ attempt = 1
    /\ pc = "v3ap1"
    /\ selections = <<>>
    /\ queries = 0
    /\ error = NoError
    /\ response = NoReply
    /\ parsed = Raised
    /\ base = <<>>
    /\ heatmap = <<>>
    /\ conflict_history = <<>>
    /\ success_records = <<>>
    /\ store = NoStore
    /\ feedback_history = <<>>
    /\ last_selections = <<>>
    /\ ap_slots = <<>>
    /\ current_rounds = 0
    /\ successes = 0
    /\ sent = NoMessage
    /\ NoCoTDMA
    /\ demand_calls = 0

\* _negotiate_round up to AP1's generate_reply, which raises: the except
\* branch of run starts the same attempt again
V3AskAP1Raises ==
    /\ pc = "v3ap1"
    /\ queries < V3MaxQueries
    /\ \E u \in V3_update_traffic_demand(attempt) :
          traffic_demand' = u[1] /\ traffic_predictor' = u[2]
    /\ queries' = queries + 1
    /\ UNCHANGED <<num_aps, num_channels, base, heatmap, conflict_history,
                   success_records, store, feedback_history, last_selections,
                   selections, ap_slots, attempt, current_rounds, pc, error,
                   successes, response, parsed, sent, channel_history,
                   covars, demand_calls>>

\* _negotiate_round up to ap1_chs; a fallback that raises starts the same
\* attempt again
V3AskAP1Reply ==
    /\ pc = "v3ap1"
    /\ queries < V3MaxQueries
    /\ \E u \in V3_update_traffic_demand(attempt) :
          /\ traffic_demand' = u[1]
          /\ traffic_predictor' = u[2]
          /\ \E reply \in V3Responses :
                \E r \in V3_parse_response(reply, u[1][1]) :
                    IF r.ok
                    THEN selections' = <<r.slots>> /\ pc' = "v3ap2"
                    ELSE selections' = <<>> /\ pc' = "v3ap1"
    /\ queries' = queries + 1
    /\ UNCHANGED <<num_aps, num_channels, base, heatmap, conflict_history,
                   success_records, store, feedback_history, last_selections,
                   ap_slots, attempt, current_rounds, error, successes,
                   response, parsed, sent, channel_history, covars,
                   demand_calls>>

\* AP2's generate_reply raises
V3AskAP2Raises ==
    /\ pc = "v3ap2"
    /\ queries < V3MaxQueries
    /\ queries' = queries + 1
    /\ selections' = <<>>
    /\ pc' = "v3ap1"
    /\ UNCHANGED <<num_aps, num_channels, traffic_demand, base, heatmap,
                   conflict_history, success_records, store, feedback_history,
                   last_selections, ap_slots, attempt, current_rounds, error,
                   successes, response, parsed, sent, v3vars, covars,
                   demand_calls>>

\* the rest of _negotiate_round: ap2_chs
V3AskAP2Reply ==
    /\ pc = "v3ap2"
    /\ queries < V3MaxQueries
    /\ queries' = queries + 1
    /\ \E reply \in V3Responses :
          \E r \in V3_parse_response(reply, traffic_demand[2]) :
              IF r.ok
              THEN selections' = Append(selections, r.slots) /\ pc' = "v3resolve"
              ELSE selections' = <<>> /\ pc' = "v3ap1"
    /\ UNCHANGED <<num_aps, num_channels, traffic_demand, base, heatmap,
                   conflict_history, success_records, store, feedback_history,
                   last_selections, ap_slots, attempt, current_rounds, error,
                   successes, response, parsed, sent, v3vars, covars,
                   demand_calls>>

\* the rest of the loop body of run: _resolve_conflict, _record_history and
\* attempt += 1; a resolution that raises starts the same attempt again
V3ResolveAndRecord ==
    /\ pc = "v3resolve"
    /\ \E r \in V3_resolve_conflict(traffic_demand, selections[1],
                                    selections[2]) :
          IF r.ok
          THEN /\ channel_history' = V3_record_history(selections[1], r.slots)
               /\ attempt' = attempt + 1
               /\ pc' = IF attempt < V3MaxAttempts THEN "v3ap1" ELSE "v3done"
          ELSE /\ channel_history' = channel_history
               /\ attempt' = attempt
               /\ pc' = "v3ap1"
    /\ selections' = <<>>
    /\ UNCHANGED <<num_aps, num_channels, traffic_demand, base, heatmap,
                   conflict_history, success_records, store, feedback_history,
                   last_selections, ap_slots, current_rounds, error, queries,
                   successes, response, parsed, sent, traffic_predictor,
                   covars, demand_calls>>

NextV3 ==
    \/ V3AskAP1Raises
    \/ V3AskAP1Reply
    \/ V3AskAP2Raises
    \/ V3AskAP2Reply
    \/ V3ResolveAndRecord

SpecV3 == InitV3 /\ [][NextV3]_vars

(***************************************************************************)
(* Claims on the conflict resolution of TDMAv3.                            *)
(***************************************************************************)
\* C24: whenever the candidate sets of AP1 and AP2 collide, the AP2 set
\* _resolve_conflict returns, by either priority resolution or the balanced
\* one, shares no slot with the AP1 set recorded for the round.
C24_V3ResolvedSetAvoidsAP1 ==
    [][(/\ pc = "v3resolve"
        /\ Range(selections[1]) \cap Range(selections[2]) # {}
        /\ Len(channel_history'.AP2) = Len(channel_history.AP2) + 1)
       => Range(channel_history'.AP2[Len(channel_history'.AP2)])
             \cap Range(channel_history'.AP1[Len(channel_history'.AP1)]) = {}]_vars

(***************************************************************************)
(* DynamicSlotAllocator of Co-TDMAv2.1 (src/src/Co-TDMA/Co-TDMAv2.1.py).   *)
(* active_alloc and locked_slots are functions on the stations; a station  *)
(* without a key in the defaultdict locked_slots has the empty set.        *)
(***************************************************************************)
\* largest station count / slot count of an allocator
CoMaxAps == 2
CoMaxChannels == 4
\* largest weight of a task report handed to initial_allocation alone
CoMaxWeight == 2

\* DynamicSlotAllocator._update_free_pool for the locked sets given
Co_update_free_pool(locked) ==
    Slots \ UNION {locked[ap] : ap \in DOMAIN locked}

\* the loop "while sum(allocated.values()) > self.base_channels": max() takes
\* the first station among those with the largest allocation
RECURSIVE Co_trim(_)
Co_trim(allocated) ==
    IF Sum(allocated) > num_channels
    THEN LET max_ap == CHOOSE ap \in DOMAIN allocated :
                          /\ \A o \in DOMAIN allocated : allocated[o] <= allocated[ap]
                          /\ \A o \in 1 .. (ap - 1) : allocated[o] < allocated[ap]
         IN  Co_trim([allocated EXCEPT ![max_ap] = @ - 1])
    ELSE allocated

\* DynamicSlotAllocator.initial_allocation: the new active_alloc for the
\* weights of the task reports (their sum is positive)
Co_initial_allocation(weight) ==
    LET total_weight == Sum(weight)
        allocated == [ap \in DOMAIN weight |->
                         LET alloc == RoundScaled(num_channels, weight[ap],
                                                  total_weight)
                         IN  IF alloc < num_channels THEN alloc
                             ELSE num_channels]
    IN  Co_trim(allocated)

\* the slots a request may be served from, without the test of free_pool
CoRequestedInDomain(request_slots) == Slots \cap request_slots

\* "available" of allocate_slots
Co_available(request_slots) == free_pool \cap request_slots

\* DynamicSlotAllocator.allocate_slots: every set "allocated" the call can
\* return; random.sample draws allocate_num of the available slots
Co_allocate_slots(ap, request_slots) ==
    LET available == Co_available(request_slots)
        allocate_num == IF Cardinality(available) < active_alloc[ap]
                        THEN Cardinality(available) ELSE active_alloc[ap]
    IN  {allocated \in SUBSET available : Cardinality(allocated) = allocate_num}

\* DynamicSlotAllocator.redistribute: the locked sets after the release
Co_redistribute(completed_aps) ==
    [ap \in DOMAIN locked_slots |->
        IF ap \in completed_aps THEN {} ELSE locked_slots[ap]]

(***************************************************************************)
(* SpecAllocator: an allocator of up to CoMaxAps stations and              *)
(* CoMaxChannels slots under every sequence of calls of its three public   *)
(* methods.  A request may name a slot outside the domain.                 *)
(***************************************************************************)
\* the stations and slots main hands to the constructor: two integers it
\* does not compare
CoConfigs == (1 .. CoMaxAps) \X (1 .. CoMaxChannels)

\* DynamicSlotAllocator.__init__
CoConstructed ==
    /\ active_alloc = [ap \in APs |-> 0]
    /\ free_pool = Slots
    /\ locked_slots = [ap \in APs |-> {}]

InitAllocator ==
    /\ \E c \in CoConfigs :
          num_aps = c[1] /\ num_channels = c[2]
    /\ CoConstructed
    /\ tasks = <<>>
    /\ negotiation = <<>>
    /\ pc = "allocator"
    /\ traffic_demand = <<>>
    /\ base = <<>>
    /\ heatmap = <<>>
    /\ conflict_history = <<>>
    /\ success_records = <<>>
    /\ store = NoStore
    /\ feedback_history = <<>>
    /\ last_selections = <<>>
    /\ selections = <<>>
    /\ ap_slots = <<>>
    /\ attempt = 0
    /\ current_rounds = 0
    /\ error = NoError
    /\ queries = 0
    /\ successes = 0
    /\ response = NoReply
    /\ parsed = Raised
    /\ sent = NoMessage
    /\ NoV3
    /\ demand_calls = 0

\* a call of initial_allocation with task reports of positive total weight
CallInitialAllocation ==
    /\ pc = "allocator"
    /\ \E weight \in [APs -> 0 .. CoMaxWeight] :
          /\ Sum(weight) > 0
          /\ active_alloc' = Co_initial_allocation(weight)
    /\ free_pool' = Co_update_free_pool(locked_slots)
    /\ UNCHANGED <<num_aps, num_channels, traffic_demand, base, heatmap,
                   conflict_history, success_records, store, feedback_history,
                   last_selections, selections, ap_slots, attempt,
                   current_rounds, pc, error, queries, successes, response,
                   parsed, sent, v3vars, tasks, locked_slots, negotiation,
                   demand_calls>>

\* a call of allocate_slots
CallAllocateSlots ==
    /\ pc = "allocator"
    /\ \E ap \in APs, request_slots \in SUBSET (0 .. num_channels) :
          \E allocated \in Co_allocate_slots(ap, request_slots) :
              locked_slots' = [locked_slots EXCEPT ![ap] = @ \cup allocated]
    /\ free_pool' = Co_update_free_pool(locked_slots')
    /\ UNCHANGED <<num_aps, num_channels, traffic_demand, base, heatmap,
                   conflict_history, success_records, store, feedback_history,
                   last_selections, selections, ap_slots, attempt,
                   current_rounds, pc, error, queries, successes, response,
                   parsed, sent, v3vars, tasks, active_alloc, negotiation,
                   demand_calls>>

\* a call of redistribute
CallRedistribute ==
    /\ pc = "allocator"
    /\ \E completed_aps \in SUBSET APs :
          locked_slots' = Co_redistribute(completed_aps)
    /\ free_pool' = Co_update_free_pool(locked_slots')
    /\ UNCHANGED <<num_aps, num_channels, traffic_demand, base, heatmap,
                   conflict_history, success_records, store, feedback_history,
                   last_selections, selections, ap_slots, attempt,
                   current_rounds, pc, error, queries, successes, response,
                   parsed, sent, v3vars, tasks, active_alloc, negotiation,
                   demand_calls>>

NextAllocator ==
    \/ CallInitialAllocation
    \/ CallAllocateSlots
    \/ CallRedistribute

SpecAllocator == InitAllocator /\ [][NextAllocator]_vars

(***************************************************************************)
(* Claims on the slot sets of the Co-TDMA allocator.                       *)
(***************************************************************************)
\* C30: after any sequence of initial_allocation, allocate_slots and
\* redistribute calls, the locked sets of different stations are pairwise
\* disjoint, free_pool is disjoint from every locked set, and free_pool
\* together with the locked sets is exactly {0 .. num_channels - 1}.
C30_AllocatorPartitionsSlots ==
    pc = "allocator" =>
        /\ \A a, b \in APs : a # b => locked_slots[a] \cap locked_slots[b] = {}
        /\ \A a \in APs : free_pool \cap locked_slots[a] = {}
        /\ free_pool \cup UNION {locked_slots[a] : a \in APs} = Slots

\* two stations hold all the slots between them, and a later call of
\* initial_allocation left station 2 a quota below what it holds
C30_Witness ==
    /\ pc = "allocator"
    /\ num_aps = 2
    /\ locked_slots[1] # {}
    /\ Cardinality(locked_slots[2]) > 1
    /\ free_pool = {}
    /\ active_alloc[2] < Cardinality(locked_slots[2])

(***************************************************************************)
(* TDMA_Coordinator._negotiation_phase of Co-TDMAv2.1, for the first cycle *)
(* of a constructed coordinator.  The tasks of a station are its remaining *)
(* load: the sum of t.remaining over its VIP tasks and over its normal     *)
(* tasks.  The phase ends by returning True or False to run_cycle, or by   *)
(* the KeyError of a request without one of the keys it reads.             *)
(***************************************************************************)
\* _reset_tasks draws 3 to 5 VIP tasks of size 1 to 3 and 5 to 8 normal
\* tasks of size 2 to 5 for a station: a VIP load of 3 to 15 and a normal
\* load of 10 to 40.  A run starts from every CoVipStep-th VIP load and
\* every CoNormalStep-th normal load, the least and the largest included.
CoVipStep == 6
CoNormalStep == 15

\* the loads of a station a run starts from
CoLoads ==
    {[vip |-> v, normal |-> n] :
        v \in {v \in 3 .. 15 : (v - 3) % CoVipStep = 0},
        n \in {n \in 10 .. 40 : (n - 10) % CoNormalStep = 0}}

\* the values a request gives for vip_need and preferred_slots; a failed
\* query or an unreadable reply gives vip_need 0 and no slot, and a
\* vip_need of num_channels + 1 stands for every number no allocation
\* covers
CoRequests ==
    {[vip_need |-> n, preferred_slots |-> p] :
        n \in 0 .. (num_channels + 1), p \in SUBSET (0 .. num_channels)}

\* TDMA_Coordinator._collect_task_reports: the weight of each report
Co_collect_task_reports ==
    [ap \in APs |-> tasks[ap].vip * 2 + tasks[ap].normal]

\* TDMA_Coordinator._check_ap_need
Co_check_ap_need(ap) == tasks[ap].vip + tasks[ap].normal

\* the loop of _adjust_allocation from station ap on
RECURSIVE Co_adjust_from(_, _, _)
Co_adjust_from(alloc, ap, total_extra) ==
    IF ap > num_aps THEN alloc
    ELSE IF Co_check_ap_need(ap) > alloc[ap]
    THEN IF total_extra - 1 <= 0 THEN [alloc EXCEPT ![ap] = @ + 1]
         ELSE Co_adjust_from([alloc EXCEPT ![ap] = @ + 1], ap + 1,
                             total_extra - 1)
    ELSE Co_adjust_from(alloc, ap + 1, total_extra)

\* TDMA_Coordinator._adjust_allocation: the new active_alloc
Co_adjust_allocation == Co_adjust_from(active_alloc, 1, num_channels \div 10)

\* no negotiation under way
NoNegotiation == [round |-> 0, turn |-> 0, all_accepted |-> TRUE]

\* TDMA_Coordinator.__init__
InitNegotiation ==
    /\ \E c \in CoConfigs :
          num_aps = c[1] /\ num_channels = c[2]
    /\ CoConstructed
    /\ tasks \in [APs -> CoLoads]
    /\ negotiation = NoNegotiation
    /\ pc = "co_cycle"
    /\ traffic_demand = <<>>
    /\ base = <<>>
    /\ heatmap = <<>>
    /\ conflict_history = <<>>
    /\ success_records = <<>>
    /\ store = NoStore
    /\ feedback_history = <<>>
    /\ last_selections = <<>>
    /\ selections = <<>>
    /\ ap_slots = <<>>
    /\ attempt = 0
    /\ current_rounds = 0
    /\ error = NoError
    /\ queries = 0
    /\ successes = 0
    /\ response = NoReply
    /\ parsed = Raised
    /\ sent = NoMessage
    /\ NoV3
    /\ demand_calls = 0

\* _negotiation_phase up to the first pass: the task reports and
\* initial_allocation
CoStartNegotiation ==
    /\ pc = "co_cycle"
    /\ active_alloc' = Co_initial_allocation(Co_collect_task_reports)
    /\ free_pool' = Co_update_free_pool(locked_slots)
    /\ negotiation' = [round |-> 1, turn |-> 1, all_accepted |-> TRUE]
    /\ pc' = "co_negotiate"
    /\ UNCHANGED <<num_aps, num_channels, traffic_demand, base, heatmap,
                   conflict_history, success_records, store, feedback_history,
                   last_selections, selections, ap_slots, attempt,
                   current_rounds, error, queries, successes, response,
                   parsed, sent, v3vars, tasks, locked_slots, demand_calls>>

\* the body of "for ap in self.agents" for the station whose turn it is,
\* and after the last station of a pass the rest of the pass: the return
\* of True, or _adjust_allocation and the next pass or the return of False
CoAsk ==
    /\ pc = "co_negotiate"
    /\ \E requested \in CoRequests :
          \E allocated \in Co_allocate_slots(negotiation.turn,
                                             requested.preferred_slots) :
              LET vip_coverage == Cardinality(allocated) >= requested.vip_need
                  all_accepted == negotiation.all_accepted /\ vip_coverage
              IN  /\ locked_slots' = [locked_slots EXCEPT
                                         ![negotiation.turn] = @ \cup allocated]
                  /\ IF negotiation.turn < num_aps
                     THEN /\ negotiation' =
                                [negotiation EXCEPT !.turn = @ + 1,
                                                    !.all_accepted = all_accepted]
                          /\ UNCHANGED <<active_alloc, pc>>
                     ELSE IF all_accepted
                     THEN /\ negotiation' =
                                [negotiation EXCEPT !.all_accepted = TRUE]
                          /\ pc' = "co_accepted"
                          /\ UNCHANGED active_alloc
                     ELSE /\ active_alloc' = Co_adjust_allocation
                          /\ IF negotiation.round < 3
                             THEN /\ negotiation' =
                                        [round |-> negotiation.round + 1,
                                         turn |-> 1, all_accepted |-> TRUE]
                                  /\ UNCHANGED pc
                             ELSE /\ negotiation' =
                                        [negotiation EXCEPT !.all_accepted = FALSE]
                                  /\ pc' = "co_failed"
    /\ free_pool' = Co_update_free_pool(locked_slots')
    /\ queries' = queries + 1
    /\ UNCHANGED <<num_aps, num_channels, traffic_demand, base, heatmap,
                   conflict_history, success_records, store, feedback_history,
                   last_selections, selections, ap_slots, attempt,
                   current_rounds, error, successes, response, parsed, sent,
                   v3vars, tasks, demand_calls>>

\* the station's reply is a JSON object without "preferred_slots", or with
\* one set() rejects (the KeyError or TypeError precedes the allocation),
\* or without "vip_need", or with one that is no number (the KeyError or
\* TypeError follows the allocation): nothing catches the exception
CoAskMalformed ==
    /\ pc = "co_negotiate"
    /\ \/ UNCHANGED <<locked_slots, free_pool>>
       \/ \E preferred_slots \in SUBSET (0 .. num_channels) :
             \E allocated \in Co_allocate_slots(negotiation.turn,
                                                preferred_slots) :
                 /\ locked_slots' = [locked_slots EXCEPT
                                        ![negotiation.turn] = @ \cup allocated]
                 /\ free_pool' = Co_update_free_pool(locked_slots')
    /\ queries' = queries + 1
    /\ error' \in {"KeyError", "TypeError"}
    /\ pc' = "crashed"
    /\ UNCHANGED <<num_aps, num_channels, traffic_demand, base, heatmap,
                   conflict_history, success_records, store, feedback_history,
                   last_selections, selections, ap_slots, attempt,
                   current_rounds, successes, response, parsed, sent, v3vars,
                   tasks, active_alloc, negotiation, demand_calls>>

NextNegotiation ==
    \/ CoStartNegotiation
    \/ CoAsk
    \/ CoAskMalformed

SpecNegotiation == InitNegotiation /\ [][NextNegotiation]_vars

(***************************************************************************)
(* Claims on the quotas of the Co-TDMA negotiation.                        *)
(***************************************************************************)
\* C29: over all passes of _negotiation_phase, the number of slots a
\* station holds in locked_slots never exceeds its current quota
\* active_alloc.
C29_LockedWithinQuota ==
    pc \in {"co_negotiate", "co_accepted", "co_failed"} =>
        \A ap \in APs : Cardinality(locked_slots[ap]) <= active_alloc[ap]

====
